---- MODULE Spec2Model ----
(***************************************************************************)
(* Model of the code-archaeologist analysis backend:                       *)
(*   - AnalysisService.analyze_repository (the pipeline orchestrator),     *)
(*   - LLMService batch enrichment and numbered-list decoding,             *)
(*   - RelationshipDetector: cycle detection, import resolution,          *)
(*     relationship extraction, call graph and dependency matrix,          *)
(*   - analysis requests and concurrent runs of one repository,            *)
(*   - ASTParser.parse_file and its regex fallback.                        *)
(* Each part has its own specification over the shared variable tuple.     *)
(***************************************************************************)
EXTENDS Integers, Sequences, FiniteSets, TLC

VARIABLES
    \* ---- pipeline (analysis_service.py, repos.py) ----
    repoStatus,      \* committed Repository.status ("none" = no record)
    repoMessage,     \* committed Repository.status_message
    relEnabled,      \* settings.ENABLE_RELATIONSHIP_DETECTION
    pc,              \* position of the analyze_repository coroutine
    exc,             \* exception in flight in the coroutine ("none" if none)
    outcome,         \* how analyze_repository ended: "none", "returned", "raised"
    cleanups,        \* number of calls of ingester.cleanup()
    statusLog,       \* every committed write of the status column, in order
    eventLog,        \* phase begin/commit, handler and cleanup events, in order
    seen,            \* what a concurrent get_analysis_status reader observed
    store,           \* per phase: how much of its output is committed
    pending,         \* TRUE if the session holds uncommitted rows of a phase
    errors,          \* the calls made for a repository id that does not exist
    \* ---- numbered-list decoding (llm_service.py) ----
    response,        \* the response text given to _parse_numbered_list
    expectedCount,   \* its expected_count argument
    parsed,          \* the list it returned
    parsePc,         \* "start" before the call, "done" after it
    \* ---- batch enrichment (llm_service.py) ----
    batchKind,       \* "summaries" or "explanations": which batch method runs
    nInputs,         \* length of the input list
    batchSize,       \* batch_size of the call
    maxConcurrent,   \* settings.LLM_MAX_CONCURRENT as configured
    batches,         \* the groups handed to process_batch, in task order
    task,            \* per group: "pending", "calling" or "done"
    permits,         \* value of the semaphore
    calls,           \* per group: number of external calls made
    answered,        \* per group: numbered items in the response it got
    results,         \* per group: gather's entry for the task
    batchPc,         \* "start", "gather", "returned"
    output,          \* the list the batch method returned
    \* ---- cycle detection (relationship_detector.py) ----
    matrix,          \* dependency_matrix: files are numbered in enumeration order
    cycles,          \* the list detect_circular_dependencies returned
    dfsCalls,        \* number of executions of the dfs body
    cyclePc,         \* "start" before the call, "done" after it returned,
                     \* "raised" after it ended in RecursionError
    frames,          \* the depth of dfs calls the interpreter's recursion
                     \* limit leaves room for
    \* ---- import resolution (relationship_detector.py) ----
    importPath,      \* the import string given to _is_import_match
    filePath,        \* the file path given to it
    matched,         \* what it returned
    matchPc,         \* "start" before the call, "done" after it
    \* ---- relationship extraction (relationship_detector.py) ----
    entities,        \* the entities table, every repository's rows
    files,           \* the files table
    rels,            \* the relationships table, in insertion order
    detections,      \* per detect_all_relationships call: its repo_id, the
                     \* number it returned, and the rows it inserted
    matrixQueries,   \* per get_dependency_matrix call: its repo_id, the number
                     \* of relationships stored at the time, and its result
    graphQueries,    \* the same per get_call_graph call
    \* ---- source parsing (ast_parser.py) ----
    available,       \* TREE_SITTER_AVAILABLE: the module-level imports succeeded
    parsers,         \* ASTParser.parsers: the languages that have a parser
    tree_sitter_ok,  \* ASTParser.tree_sitter_ok
    content,         \* the file text given to parse_file
    language,        \* the language given to parse_file
    precise,         \* what the precise attempt did: "skipped", "returned", "threw"
    astResult,       \* the list parse_file returned
    astRaised,       \* the exception parse_file raised ("none" if it returned)
    astPc,           \* "new" before __init__, "ready" after it, "done" after parse_file
    \* ---- requests and runs of one repository (repos.py, analysis_service.py) ----
    dbStatus,        \* committed Repository.status ("none" = no record)
    runs,            \* per background task: its position and exception in flight
    transitions      \* every committed change of the status, as <<from, to>>

pipeAux == <<store, pending, errors>>

pipeVars == <<repoStatus, repoMessage, relEnabled, pc, exc, outcome, cleanups,
              statusLog, eventLog, seen, pipeAux>>

parseVars == <<response, expectedCount, parsed, parsePc>>

batchVars == <<batchKind, nInputs, batchSize, maxConcurrent, batches, task,
               permits, calls, answered, results, batchPc, output>>

cycleVars == <<matrix, cycles, dfsCalls, cyclePc, frames>>

matchVars == <<importPath, filePath, matched, matchPc>>

relVars == <<entities, files, rels, detections, matrixQueries, graphQueries>>

runVars == <<dbStatus, runs, transitions>>

astVars == <<available, parsers, tree_sitter_ok, content, language, precise,
            astResult, astRaised, astPc>>

otherThanPipe == <<parseVars, batchVars, cycleVars, matchVars, relVars, runVars, astVars>>

otherThanParse == <<pipeVars, batchVars, cycleVars, matchVars, relVars, runVars, astVars>>

otherThanBatch == <<pipeVars, parseVars, cycleVars, matchVars, relVars, runVars, astVars>>

otherThanCycle == <<pipeVars, parseVars, batchVars, matchVars, relVars, runVars, astVars>>

otherThanMatch == <<pipeVars, parseVars, batchVars, cycleVars, relVars, runVars, astVars>>

otherThanRel == <<pipeVars, parseVars, batchVars, cycleVars, matchVars, runVars, astVars>>

otherThanAst == <<pipeVars, parseVars, batchVars, cycleVars, matchVars, relVars, runVars>>

otherThanRuns == <<pipeVars, parseVars, batchVars, cycleVars, matchVars, relVars, astVars>>

vars == <<pipeVars, parseVars, batchVars, cycleVars, matchVars, relVars, runVars, astVars>>

----------------------------------------------------------------------------
\* Pipeline: AnalysisService.analyze_repository

PENDING == "PENDING"
IN_PROGRESS == "IN_PROGRESS"
COMPLETED == "COMPLETED"
FAILED == "FAILED"

AnalysisStatus == {PENDING, IN_PROGRESS, COMPLETED, FAILED}

\* Exceptions a suspended call can raise into the coroutine: an ordinary
\* Exception, or asyncio.CancelledError, which is a BaseException and is not
\* matched by "except Exception".
ExcKinds == {"Exception", "CancelledError"}

IsException(k) == k = "Exception"

\* The phases inside the try block, in program order.
PhaseOrder == <<"scan", "parse", "relate", "embed">>

PhaseNames == {"scan", "parse", "relate", "embed"}

\* The status messages a phase commits, in order; "=" is a commit that leaves
\* the message as it is (the commit of the phase's records).
PhaseCommits(p) ==
    CASE p = "scan"   -> <<"Cloning repository...", "Scanning files...", "=">>
      [] p = "parse"  -> <<"Parsing code structure...", "Generating summaries...",
                           "Explaining code entities...", "=">>
      [] p = "relate" -> <<"Detecting code relationships...", "=",
                           "Detected relationships">>
      [] p = "embed"  -> <<"Generating embeddings...", "=", "Embeddings generated">>

\* The commit of PhaseCommits(p) that carries the phase's output: the File
\* rows (line 117), the Entity rows (line 206), the Relationship rows
\* (relationship_detector.py 81), the vector store's rows (lines 244-246).
RecordStep(p) ==
    CASE p = "scan"   -> 3
      [] p = "parse"  -> 4
      [] p = "relate" -> 2
      [] p = "embed"  -> 2

\* The phase after p with the relationship flag ignored.
NextPhase_RelateAlways(p) ==
    CASE p = "scan"   -> "parse"
      [] p = "parse"  -> "relate"
      [] p = "relate" -> "embed"
      [] p = "embed"  -> "finalize"

\* The phase that follows p inside the try block ("finalize" after the last).
NextPhase(p) ==
    CASE p = "scan"   -> "parse"
      [] p = "parse"  -> IF relEnabled THEN "relate" ELSE "embed"
      [] p = "relate" -> "embed"
      [] p = "embed"  -> "finalize"

InTry == pc.at \in {"phase", "finalize"}

\* repos.py analyze_repository: create the record or re-queue it as PENDING,
\* commit, and queue the background run.
AnalyzeRequest ==
    /\ pc.at = "idle"
    /\ repoStatus' = PENDING
    /\ repoMessage' = IF repoStatus = "none" THEN "Queued for analysis"
                                             ELSE "Queued for re-analysis"
    /\ statusLog' = Append(statusLog, PENDING)
    /\ pc' = [at |-> "queued", phase |-> "", step |-> 0]
    /\ UNCHANGED <<relEnabled, exc, outcome, cleanups, eventLog, seen>>
    /\ UNCHANGED pipeAux
    /\ UNCHANGED otherThanPipe

\* StartRun without line 54: IN_PROGRESS is set on the object but not committed.
StartRun_NoCommit ==
    /\ pc.at = "queued"
    /\ pc' = [at |-> "phase", phase |-> "scan", step |-> 1]
    /\ eventLog' = Append(eventLog, <<"begin", "scan">>)
    /\ UNCHANGED <<repoStatus, repoMessage, statusLog, relEnabled, exc, outcome,
                   cleanups, seen>>
    /\ UNCHANGED pipeAux
    /\ UNCHANGED otherThanPipe

\* analysis_service.py 46-54: fetch the record, commit IN_PROGRESS.
StartRun ==
    /\ pc.at = "queued"
    /\ repoStatus' = IN_PROGRESS
    /\ repoMessage' = "Starting analysis..."
    /\ statusLog' = Append(statusLog, IN_PROGRESS)
    /\ pc' = [at |-> "phase", phase |-> "scan", step |-> 1]
    /\ eventLog' = Append(eventLog, <<"begin", "scan">>)
    /\ UNCHANGED <<relEnabled, exc, outcome, cleanups, seen>>
    /\ UNCHANGED pipeAux
    /\ UNCHANGED otherThanPipe

\* One commit of the current phase; hasEntities decides whether the parse
\* phase commits its two batch messages (lines 163 and 177).
PhaseStep(hasEntities) ==
    /\ pc.at = "phase"
    /\ LET p    == pc.phase
           cs   == PhaseCommits(p)
           i    == pc.step
           last == i = Len(cs)
           skip == p = "parse" /\ i = 1 /\ ~hasEntities
           np   == NextPhase(p)
       IN /\ repoMessage' = IF cs[i] = "=" THEN repoMessage ELSE cs[i]
          /\ IF last
               THEN /\ pc' = IF np = "finalize"
                               THEN [at |-> "finalize", phase |-> "", step |-> 0]
                               ELSE [at |-> "phase", phase |-> np, step |-> 1]
                    /\ eventLog' = IF np = "finalize"
                                     THEN Append(eventLog, <<"commit", p>>)
                                     ELSE eventLog \o <<<<"commit", p>>, <<"begin", np>>>>
               ELSE /\ pc' = [pc EXCEPT !.step = IF skip THEN Len(cs) ELSE i + 1]
                    /\ eventLog' = eventLog
          /\ store' = IF i = RecordStep(p) THEN [store EXCEPT ![p] = "full"] ELSE store
    /\ UNCHANGED <<repoStatus, relEnabled, exc, outcome, cleanups, statusLog, seen>>
    /\ UNCHANGED <<pending, errors>>
    /\ UNCHANGED otherThanPipe

\* analysis_service.py 77-80: commit COMPLETED.
Finalize ==
    /\ pc.at = "finalize"
    /\ repoStatus' = COMPLETED
    /\ repoMessage' = "Analysis complete"
    /\ statusLog' = Append(statusLog, COMPLETED)
    /\ eventLog' = Append(eventLog, <<"finalize", "">>)
    /\ pc' = [at |-> "finally", phase |-> "", step |-> 0]
    /\ UNCHANGED <<relEnabled, exc, outcome, cleanups, seen>>
    /\ UNCHANGED pipeAux
    /\ UNCHANGED otherThanPipe

\* An awaited call inside the try block raises k; when it is the work that
\* produces the phase's output, some of its rows may already have been added.
Raise(k) ==
    /\ InTry
    /\ exc' = k
    /\ eventLog' = Append(eventLog, <<"raise", pc.phase>>)
    /\ pc' = [at |-> "except", phase |-> pc.phase, step |-> 0]
    /\ pending' \in IF pc.at = "phase" /\ pc.step = RecordStep(pc.phase)
                      THEN BOOLEAN ELSE {FALSE}
    /\ UNCHANGED <<repoStatus, repoMessage, relEnabled, outcome, cleanups,
                   statusLog, seen>>
    /\ UNCHANGED <<store, errors>>
    /\ UNCHANGED otherThanPipe

\* analysis_service.py 82-87: "except Exception" commits FAILED and re-raises;
\* an exception that is not an Exception passes the clause untouched. The
\* handler's commit also commits the rows the failed phase had added to the
\* session (the vector store commits its rows as they are written); without
\* the commit the session is closed and its rows are dropped.
ExceptClause ==
    /\ pc.at = "except"
    /\ IF IsException(exc)
         THEN /\ repoStatus' = FAILED
              /\ repoMessage' = "Analysis failed"
              /\ statusLog' = Append(statusLog, FAILED)
              /\ eventLog' = Append(eventLog, <<"failed", pc.phase>>)
         ELSE UNCHANGED <<repoStatus, repoMessage, statusLog, eventLog>>
    /\ store' = IF pending /\ (IsException(exc) \/ pc.phase = "embed")
                  THEN [store EXCEPT ![pc.phase] = "partial"]
                  ELSE store
    /\ pending' = FALSE
    /\ pc' = [pc EXCEPT !.at = "finally"]
    /\ UNCHANGED <<relEnabled, exc, outcome, cleanups, seen, errors>>
    /\ UNCHANGED otherThanPipe

\* analysis_service.py 88-90: the finally block, then the coroutine ends.
FinallyCleanup ==
    /\ pc.at = "finally"
    /\ cleanups' = cleanups + 1
    /\ eventLog' = Append(eventLog, <<"cleanup", "">>)
    /\ outcome' = IF exc = "none" THEN "returned" ELSE "raised"
    /\ pc' = [pc EXCEPT !.at = "done"]
    /\ UNCHANGED <<repoStatus, repoMessage, relEnabled, exc, statusLog, seen>>
    /\ UNCHANGED pipeAux
    /\ UNCHANGED otherThanPipe

\* get_analysis_status on another session, polled by the client that made the
\* analyze request: reads the committed status.
ReadStatus ==
    /\ statusLog # <<>>
    /\ IF seen = <<>> THEN TRUE ELSE seen[Len(seen)] # repoStatus
    /\ seen' = Append(seen, repoStatus)
    /\ UNCHANGED <<repoStatus, repoMessage, relEnabled, pc, exc, outcome,
                   cleanups, statusLog, eventLog>>
    /\ UNCHANGED pipeAux
    /\ UNCHANGED otherThanPipe

\* Bound on the calls made for a repository id that does not exist.
MaxLookups == 2

\* analyze_repository for a missing id, taking the finally block on its way
\* out.
AnalyzeMissing_ThroughFinally ==
    /\ repoStatus = "none" /\ pc.at = "idle"
    /\ Len(errors) < MaxLookups
    /\ errors' = Append(errors, [call |-> "analyze_repository", raised |-> "ValueError"])
    /\ cleanups' = cleanups + 1
    /\ UNCHANGED <<repoStatus, repoMessage, relEnabled, pc, exc, outcome,
                   statusLog, eventLog, seen, store, pending>>
    /\ UNCHANGED otherThanPipe

\* analysis_service.py 46-49: analyze_repository for an id with no record
\* raises ValueError before the try block.
AnalyzeMissing ==
    /\ repoStatus = "none" /\ pc.at = "idle"
    /\ Len(errors) < MaxLookups
    /\ errors' = Append(errors, [call |-> "analyze_repository", raised |-> "ValueError"])
    /\ UNCHANGED <<repoStatus, repoMessage, relEnabled, pc, exc, outcome, cleanups,
                   statusLog, eventLog, seen, store, pending>>
    /\ UNCHANGED otherThanPipe

\* analysis_service.py 258-262: get_analysis_status for an id with no record
\* raises ValueError.
StatusMissing ==
    /\ repoStatus = "none"
    /\ Len(errors) < MaxLookups
    /\ errors' = Append(errors, [call |-> "get_analysis_status", raised |-> "ValueError"])
    /\ UNCHANGED <<repoStatus, repoMessage, relEnabled, pc, exc, outcome, cleanups,
                   statusLog, eventLog, seen, store, pending>>
    /\ UNCHANGED otherThanPipe

PipeInit ==
    /\ repoStatus \in {"none"} \cup (AnalysisStatus \ {IN_PROGRESS})
    /\ repoMessage = ""
    /\ relEnabled \in BOOLEAN
    /\ pc = [at |-> "idle", phase |-> "", step |-> 0]
    /\ exc = "none"
    /\ outcome = "none"
    /\ cleanups = 0
    /\ statusLog = <<>>
    /\ eventLog = <<>>
    /\ seen = <<>>
    /\ store = [p \in PhaseNames |-> "none"]
    /\ pending = FALSE
    /\ errors = <<>>

\* The pipeline at rest, for the specifications of the other components.
PipeIdle ==
    /\ repoStatus = "none"
    /\ repoMessage = ""
    /\ relEnabled = TRUE
    /\ pc = [at |-> "idle", phase |-> "", step |-> 0]
    /\ exc = "none"
    /\ outcome = "none"
    /\ cleanups = 0
    /\ statusLog = <<>>
    /\ eventLog = <<>>
    /\ seen = <<>>
    /\ store = [p \in PhaseNames |-> "none"]
    /\ pending = FALSE
    /\ errors = <<>>

\* The decoder at rest.
ParseIdle ==
    /\ response = <<>>
    /\ expectedCount = 0
    /\ parsed = <<>>
    /\ parsePc = "idle"

\* No batch call.
BatchIdle ==
    /\ batchKind = "summaries"
    /\ nInputs = 0
    /\ batchSize = 0
    /\ maxConcurrent = 0
    /\ batches = <<>>
    /\ task = <<>>
    /\ permits = 0
    /\ calls = <<>>
    /\ answered = <<>>
    /\ results = <<>>
    /\ batchPc = "idle"
    /\ output = <<>>

\* No cycle detection.
CycleIdle ==
    /\ matrix = <<>>
    /\ cycles = <<>>
    /\ dfsCalls = 0
    /\ cyclePc = "idle"
    /\ frames = 0

\* No import being resolved.
MatchIdle ==
    /\ importPath = <<>>
    /\ filePath = <<>>
    /\ matched = FALSE
    /\ matchPc = "idle"

\* Empty tables, no detection run.
RelIdle ==
    /\ entities = <<>>
    /\ files = <<>>
    /\ rels = <<>>
    /\ detections = <<>>
    /\ matrixQueries = <<>>
    /\ graphQueries = <<>>

\* No request made, no background task.
RunsIdle ==
    /\ dbStatus = "none"
    /\ runs = <<>>
    /\ transitions = {}

AstIdle ==
    /\ available = FALSE
    /\ parsers = {}
    /\ tree_sitter_ok = FALSE
    /\ content = <<>>
    /\ language = "none"
    /\ precise = "skipped"
    /\ astResult = <<>>
    /\ astRaised = "none"
    /\ astPc = "idle"

PipeNext ==
    \/ AnalyzeRequest
    \/ StartRun
    \/ \E h \in BOOLEAN : PhaseStep(h)
    \/ Finalize
    \/ \E k \in ExcKinds : Raise(k)
    \/ ExceptClause
    \/ FinallyCleanup
    \/ ReadStatus
    \/ AnalyzeMissing
    \/ StatusMissing

Init == PipeInit /\ ParseIdle /\ BatchIdle /\ CycleIdle /\ MatchIdle /\ RelIdle /\ RunsIdle /\ AstIdle

Next == PipeNext

Spec == Init /\ [][Next]_vars

Range(q) == {q[i] : i \in 1..Len(q)}

Last(q) == q[Len(q)]

\* a is a subsequence of b
RECURSIVE IsSubseq(_, _)
IsSubseq(a, b) ==
    IF a = <<>> THEN TRUE
    ELSE IF b = <<>> THEN FALSE
    ELSE IF Head(a) = Head(b) THEN IsSubseq(Tail(a), Tail(b))
    ELSE IsSubseq(a, Tail(b))

\* C1: a run in which nothing raises commits exactly PENDING, IN_PROGRESS,
\* COMPLETED: IN_PROGRESS is committed before any phase event, COMPLETED is the
\* last status write, and what a concurrent reader observes is a subsequence
\* of the committed writes (each value is in the store before the next write).
C1_SuccessStatusSequence ==
    /\ outcome = "returned" => statusLog = <<PENDING, IN_PROGRESS, COMPLETED>>
    /\ eventLog # <<>> => /\ Len(statusLog) >= 2
                          /\ SubSeq(statusLog, 1, 2) = <<PENDING, IN_PROGRESS>>
    /\ COMPLETED \in Range(statusLog) => /\ Last(statusLog) = COMPLETED
                                         /\ pc.at \in {"finally", "done"}
                                         /\ exc = "none"
    /\ IsSubseq(seen, statusLog)

\* C1 witness: a successful run whose reader saw all three values in order.
C1_Witness ==
    /\ outcome = "returned"
    /\ seen = <<PENDING, IN_PROGRESS, COMPLETED>>

\* C2: whenever a phase raises, the run ends with FAILED and a failure message
\* committed, the exception reaches the caller, and cleanup has run exactly
\* once, after the status commit; a successful run also cleans up exactly once.
C2_FailedAndCleanedUp ==
    pc.at = "done" =>
        /\ cleanups = 1
        /\ Last(eventLog) = <<"cleanup", "">>
        /\ exc # "none" => /\ outcome = "raised"
                           /\ repoStatus = FAILED
                           /\ repoMessage = "Analysis failed"
                           /\ Last(statusLog) = FAILED

----------------------------------------------------------------------------
\* Text: a string is a sequence of one-character strings.

WS == {" ", "\n"}

DIGITS == {"0", "1", "2", "3", "4", "5", "6", "7", "8", "9"}

\* The first position >= i of s whose character is not in S (Len(s)+1 if none).
RECURSIVE SkipWhile(_, _, _)
SkipWhile(s, i, S) ==
    IF i > Len(s) THEN i
    ELSE IF s[i] \in S THEN SkipWhile(s, i + 1, S)
    ELSE i

\* The last position <= i of s whose character is not in S (0 if none).
RECURSIVE SkipBack(_, _, _)
SkipBack(s, i, S) ==
    IF i < 1 THEN 0
    ELSE IF s[i] \in S THEN SkipBack(s, i - 1, S)
    ELSE i

\* str.strip()
Strip(s) ==
    LET a == SkipWhile(s, 1, WS)
        b == SkipBack(s, Len(s), WS)
    IN IF a > b THEN <<>> ELSE SubSeq(s, a, b)

\* The first position >= i of s holding character c (Len(s)+1 if none).
RECURSIVE FindChar(_, _, _)
FindChar(s, i, c) ==
    IF i > Len(s) THEN i
    ELSE IF s[i] = c THEN i
    ELSE FindChar(s, i + 1, c)

\* str.split('\n'): always at least one piece.
RECURSIVE SplitLines(_)
SplitLines(s) ==
    LET e == FindChar(s, 1, "\n")
    IN IF e > Len(s) THEN <<s>>
       ELSE <<SubSeq(s, 1, e - 1)>> \o SplitLines(SubSeq(s, e + 1, Len(s)))

\* The first position >= i at which "\n\n" starts in s (0 if none).
RECURSIVE FindBlank(_, _)
FindBlank(s, i) ==
    IF i + 1 > Len(s) THEN 0
    ELSE IF s[i] = "\n" /\ s[i + 1] = "\n" THEN i
    ELSE FindBlank(s, i + 1)

\* str.split('\n\n'): left to right, non-overlapping.
RECURSIVE SplitParagraphs(_)
SplitParagraphs(s) ==
    LET e == FindBlank(s, 1)
    IN IF e = 0 THEN <<s>>
       ELSE <<SubSeq(s, 1, e - 1)>> \o SplitParagraphs(SubSeq(s, e + 2, Len(s)))

\* ' '.join(parts)
RECURSIVE JoinSpace(_)
JoinSpace(parts) ==
    IF parts = <<>> THEN <<>>
    ELSE IF Len(parts) = 1 THEN parts[1]
    ELSE parts[1] \o <<" ">> \o JoinSpace(Tail(parts))

\* '\n'.join(parts)
RECURSIVE JoinLines(_)
JoinLines(parts) ==
    IF parts = <<>> THEN <<>>
    ELSE IF Len(parts) = 1 THEN parts[1]
    ELSE parts[1] \o <<"\n">> \o JoinLines(Tail(parts))

\* The end of the match of  ^\s*(?:\[(\d+)\]|(\d+)[.)]\s)  at the start of the
\* line (0 if the line does not match).
MarkerMatchEnd(line) ==
    LET a == SkipWhile(line, 1, WS)
        d == SkipWhile(line, a + 1, DIGITS)
        e == SkipWhile(line, a, DIGITS)
    IN IF a <= Len(line) /\ line[a] = "["
         THEN IF d > a + 1 /\ d <= Len(line) /\ line[d] = "]" THEN d ELSE 0
         ELSE IF /\ e > a
                 /\ e + 1 <= Len(line)
                 /\ line[e] \in {".", ")"}
                 /\ line[e + 1] \in WS
                THEN e + 1
                ELSE 0

\* re.match(r'^\s*(?:\[(\d+)\]|(\d+)[.)]\s)', line)
IsNumbered(line) == MarkerMatchEnd(line) # 0

\* re.sub(r'^\s*(?:\[\d+\]|\d+[.)]\s*)', '', line).strip()
StripMarker(line) ==
    LET a == SkipWhile(line, 1, WS)
        d == SkipWhile(line, a + 1, DIGITS)
        e == SkipWhile(line, a, DIGITS)
        cut == IF a <= Len(line) /\ line[a] = "["
                 THEN IF d > a + 1 /\ d <= Len(line) /\ line[d] = "]" THEN d ELSE 0
                 ELSE IF e > a /\ e <= Len(line) /\ line[e] \in {".", ")"}
                        THEN SkipWhile(line, e + 1, WS) - 1
                        ELSE 0
    IN Strip(SubSeq(line, cut + 1, Len(line)))

\* The padding of _parse_numbered_list, one symbol for the whole text.
PLACEHOLDER == <<"Summary not available">>

\* The loop with line 345 as a plain "else": unmarked lines before the first
\* marker open an item.
RECURSIVE ParseLoop_KeepPreamble(_, _, _, _)
ParseLoop_KeepPreamble(lines, i, items, cur) ==
    IF i > Len(lines) THEN [items |-> items, cur |-> cur]
    ELSE IF IsNumbered(lines[i])
      THEN ParseLoop_KeepPreamble(lines, i + 1,
                     IF cur # <<>> THEN Append(items, Strip(JoinSpace(cur))) ELSE items,
                     <<StripMarker(lines[i])>>)
    ELSE ParseLoop_KeepPreamble(lines, i + 1, items, Append(cur, Strip(lines[i])))

\* llm_service.py 336-346: the loop over the lines; items are the finished
\* items, cur the pieces of the item being collected.
RECURSIVE ParseLoop(_, _, _, _)
ParseLoop(lines, i, items, cur) ==
    IF i > Len(lines) THEN [items |-> items, cur |-> cur]
    ELSE IF IsNumbered(lines[i])
      THEN ParseLoop(lines, i + 1,
                     IF cur # <<>> THEN Append(items, Strip(JoinSpace(cur))) ELSE items,
                     <<StripMarker(lines[i])>>)
    ELSE IF cur # <<>>
      THEN ParseLoop(lines, i + 1, items, Append(cur, Strip(lines[i])))
    ELSE ParseLoop(lines, i + 1, items, cur)

\* llm_service.py 329-349: the numbered items of a text.
NumberedItems(text) ==
    LET r == ParseLoop(SplitLines(Strip(text)), 1, <<>>, <<>>)
    IN IF r.cur # <<>> THEN Append(r.items, Strip(JoinSpace(r.cur))) ELSE r.items

\* The non-empty members of a sequence of strings, each stripped.
RECURSIVE StripNonEmpty(_)
StripNonEmpty(ps) ==
    IF ps = <<>> THEN <<>>
    ELSE IF Strip(Head(ps)) # <<>> THEN <<Strip(Head(ps))>> \o StripNonEmpty(Tail(ps))
    ELSE StripNonEmpty(Tail(ps))

\* llm_service.py 361: [p.strip() for p in response.split('\n\n') if p.strip()]
Paragraphs(text) == StripNonEmpty(SplitParagraphs(text))

\* Pad stopping one short of expected_count.
Pad_Short(items, expected_count) ==
    items \o [i \in 1..(expected_count - Len(items) - 1) |-> PLACEHOLDER]

\* llm_service.py 366-367: pad to expected_count.
Pad(items, expected_count) ==
    items \o [i \in 1..(expected_count - Len(items)) |-> PLACEHOLDER]

\* llm_service.py 318-369
ParseNumberedList(text, expected_count) ==
    LET items == NumberedItems(text)
        paragraphs == Paragraphs(text)
    IN IF Len(items) = expected_count THEN items
       ELSE IF Len(items) > expected_count THEN SubSeq(items, 1, expected_count)
       ELSE IF Len(paragraphs) >= expected_count
         THEN SubSeq(paragraphs, 1, expected_count)
       ELSE Pad(items, expected_count)

\* Bounds of the decoding specification.
MaxLines == 3

MaxExpected == 3

\* The lines responses are built from: the three marker forms, with and
\* without the blank after the marker, indented, bare, and unmarked lines.
SampleLines ==
    { <<"[", "1", "]", " ", "a">>,
      <<"[", "2", "]", "b">>,
      <<" ", "[", "3", "]">>,
      <<"1", ".", " ", "a">>,
      <<"2", ")", " ", "b", " ">>,
      <<"1", ".", "a">>,
      <<"3", ")">>,
      <<"1", "2", ".", " ">>,
      <<"c">>,
      <<" ", "b", " ", "c">>,
      <<" ">>,
      <<>> }

Responses ==
    {JoinLines(ls) : ls \in UNION {[1..m -> SampleLines] : m \in 0..MaxLines}}

ParseInit ==
    /\ response \in Responses
    /\ expectedCount \in 0..MaxExpected
    /\ parsed = <<>>
    /\ parsePc = "start"

\* One call of _parse_numbered_list(response, expected_count).
ParseResponse ==
    /\ parsePc = "start"
    /\ parsed' = ParseNumberedList(response, expectedCount)
    /\ parsePc' = "done"
    /\ UNCHANGED <<response, expectedCount>>
    /\ UNCHANGED otherThanParse

InitParse == ParseInit /\ PipeIdle /\ BatchIdle /\ CycleIdle /\ MatchIdle /\ RelIdle /\ RunsIdle /\ AstIdle

NextParse == ParseResponse

SpecParse == InitParse /\ [][NextParse]_vars

MarkerEnd(line, needBlank) ==
    LET ends == {e \in 1..Len(line) :
                   \E a \in 1..e :
                     /\ \A i \in 1..(a - 1) : line[i] \in WS
                     /\ \/ /\ line[a] = "[" /\ line[e] = "]" /\ e > a + 1
                           /\ \A i \in (a + 1)..(e - 1) : line[i] \in DIGITS
                        \/ /\ line[e] \in {".", ")"} /\ e > a
                           /\ \A i \in a..(e - 1) : line[i] \in DIGITS
                           /\ needBlank => (e < Len(line) /\ line[e + 1] \in WS)}
    IN IF ends = {} THEN 0 ELSE CHOOSE e \in ends : \A f \in ends : e <= f

\* The positions of the marker lines among the lines of the stripped text.
MarkerLines(text, needBlank) ==
    LET lines == SplitLines(Strip(text))
    IN {i \in 1..Len(lines) : MarkerEnd(lines[i], needBlank) # 0}

\* The item of the marker line at position m: the text after the marker
\* joined with the unmarked lines that follow it, up to the next marker.
ItemOfMarker(text, needBlank, m) ==
    LET lines == SplitLines(Strip(text))
        marks == MarkerLines(text, needBlank)
        later == {j \in marks : j > m}
        stop  == IF later = {} THEN Len(lines) + 1
                 ELSE CHOOSE j \in later : \A l \in later : j <= l
        first == Strip(SubSeq(lines[m], MarkerEnd(lines[m], needBlank) + 1, Len(lines[m])))
    IN Strip(JoinSpace(<<first>> \o [j \in 1..(stop - m - 1) |-> Strip(lines[m + j])]))

\* The decoded list is the list of the items of the marker lines, in order.
DecodesMarkers(needBlank) ==
    LET marks == MarkerLines(response, needBlank)
    IN Cardinality(marks) = expectedCount =>
          /\ Len(parsed) = expectedCount
          /\ \A m \in marks :
                parsed[Cardinality({j \in marks : j <= m})]
                    = ItemOfMarker(response, needBlank, m)

\* C8 as stated: every line starting with [n], n. or n) is a marker.
C8_AnyMarkerDelimits == parsePc = "done" => DecodesMarkers(FALSE)

\* C8 amended: n. and n) are markers only when a whitespace character follows.
C8_BlankAfterDotOrParen == parsePc = "done" => DecodesMarkers(TRUE)

\* C8 witness: as many marker lines as expected, after an unmarked first line
\* that is discarded.
C8_Witness ==
    /\ parsePc = "done"
    /\ expectedCount = 2
    /\ MarkerLines(response, TRUE) = {2, 3}
    /\ Len(SplitLines(Strip(response))) = 3
    /\ parsed[1] = <<"a">>

----------------------------------------------------------------------------
\* Batch enrichment: generate_file_summaries_batch, explain_functions_batch

\* llm_service.py 215
SummaryBatchSize == 3

\* config.py 30, 31
LLM_BATCH_SIZE == 5

LLM_MAX_CONCURRENT == 2

\* Bound on the length of the input list.
MaxInputs == 7

\* The values of LLM_BATCH_SIZE the environment configures: the default and a
\* smaller one, which gives more groups than permits.
ExplainBatchSizes == {2, LLM_BATCH_SIZE}

Min(a, b) == IF a < b THEN a ELSE b

\* range(start, stop, step) for step > 0
RECURSIVE Range3(_, _, _)
Range3(start, stop, step) ==
    IF start >= stop THEN <<>>
    ELSE <<start>> \o Range3(start + step, stop, step)

\* The slice one element short: seq[a:b-1]
Slice_Short(seq, a, b) == SubSeq(seq, a + 1, Min(b - 1, Len(seq)))

\* seq[a:b] for 0 <= a <= b, with Python's 0-based bounds
Slice(seq, a, b) == SubSeq(seq, a + 1, Min(b, Len(seq)))

\* llm_service.py 224-226, 280-282: one group per step of the range.
Batches(inputs, batch_size) ==
    LET starts == Range3(0, Len(inputs), batch_size)
    IN [g \in 1..Len(starts) |-> Slice(inputs, starts[g], starts[g] + batch_size)]

\* The input list: the items are identified by their positions.
Inputs == [i \in 1..nInputs |-> i]

\* llm_service.py 234, 290: the failure placeholder, one symbol for the text.
FailurePlaceholder ==
    IF batchKind = "summaries" THEN <<"Summary generation failed">>
    ELSE <<"Explanation generation failed">>

Digit(j) == <<"0", "1", "2", "3", "4", "5", "6", "7", "8", "9">>[j + 1]

\* A response of the external service with m numbered items, "[j] j" each.
RECURSIVE NumberedResponse(_)
NumberedResponse(m) ==
    IF m = 0 THEN <<>>
    ELSE IF m = 1 THEN <<"[", Digit(1), "]", " ", Digit(1)>>
    ELSE NumberedResponse(m - 1) \o <<"\n", "[", Digit(m), "]", " ", Digit(m)>>

\* llm_service.py 240-260, 296-316: what _summarize_files_batch and
\* _explain_functions_batch return for a response with m numbered items.
Decoded(m, batch) == ParseNumberedList(NumberedResponse(m), Len(batch))

Groups == 1..Len(batches)

\* The entries of gather(..., return_exceptions=True): the list a task
\* returned, or the exception it raised.
NoResult == [exception |-> FALSE, value |-> <<>>]

Returned(list) == [exception |-> FALSE, value |-> list]

Raised == [exception |-> TRUE, value |-> <<>>]

\* isinstance(result, Exception)
IsFailure(result) == result.exception

InFlight == {g \in Groups : task[g] = "calling"}

\* llm_service.py 215-226, 271-282: the semaphore and one task per group.
CreateTasks ==
    /\ batchPc = "start"
    /\ batches' = Batches(Inputs, batchSize)
    /\ task' = [g \in 1..Len(batches') |-> "pending"]
    /\ calls' = [g \in 1..Len(batches') |-> 0]
    /\ answered' = [g \in 1..Len(batches') |-> 0]
    /\ results' = [g \in 1..Len(batches') |-> NoResult]
    /\ permits' = maxConcurrent
    /\ batchPc' = "gather"
    /\ UNCHANGED <<batchKind, nInputs, batchSize, maxConcurrent, output>>
    /\ UNCHANGED otherThanBatch

\* "async with semaphore" entered without waiting for a permit.
Acquire_NoWait(g) ==
    /\ batchPc = "gather"
    /\ task[g] = "pending"
    /\ permits' = permits - 1
    /\ task' = [task EXCEPT ![g] = "calling"]
    /\ calls' = [calls EXCEPT ![g] = @ + 1]
    /\ UNCHANGED <<batchKind, nInputs, batchSize, maxConcurrent, batches,
                   answered, results, batchPc, output>>
    /\ UNCHANGED otherThanBatch

\* process_batch (220-221, 276-277): take a permit, start the external call.
Acquire(g) ==
    /\ batchPc = "gather"
    /\ task[g] = "pending"
    /\ permits > 0
    /\ permits' = permits - 1
    /\ task' = [task EXCEPT ![g] = "calling"]
    /\ calls' = [calls EXCEPT ![g] = @ + 1]
    /\ UNCHANGED <<batchKind, nInputs, batchSize, maxConcurrent, batches,
                   answered, results, batchPc, output>>
    /\ UNCHANGED otherThanBatch

\* The external call of group g returns a response with m numbered items; it
\* is decoded, the permit is released and the task ends.
CallReturns(g, m) ==
    /\ batchPc = "gather"
    /\ task[g] = "calling"
    /\ answered' = [answered EXCEPT ![g] = m]
    /\ results' = [results EXCEPT ![g] = Returned(Decoded(m, batches[g]))]
    /\ permits' = permits + 1
    /\ task' = [task EXCEPT ![g] = "done"]
    /\ UNCHANGED <<batchKind, nInputs, batchSize, maxConcurrent, batches,
                   calls, batchPc, output>>
    /\ UNCHANGED otherThanBatch

\* The failing task ends holding its permit.
CallFails_KeepsPermit(g) ==
    /\ batchPc = "gather"
    /\ task[g] = "calling"
    /\ results' = [results EXCEPT ![g] = Raised]
    /\ task' = [task EXCEPT ![g] = "done"]
    /\ UNCHANGED <<batchKind, nInputs, batchSize, maxConcurrent, batches,
                   permits, calls, answered, batchPc, output>>
    /\ UNCHANGED otherThanBatch

\* The external call of group g fails (_call_llm raises Exception): the
\* "async with" releases the permit and gather keeps the exception.
CallFails(g) ==
    /\ batchPc = "gather"
    /\ task[g] = "calling"
    /\ results' = [results EXCEPT ![g] = Raised]
    /\ permits' = permits + 1
    /\ task' = [task EXCEPT ![g] = "done"]
    /\ UNCHANGED <<batchKind, nInputs, batchSize, maxConcurrent, batches,
                   calls, answered, batchPc, output>>
    /\ UNCHANGED otherThanBatch

\* The collecting loop with the placeholder repeated batch_size times.
RECURSIVE Assemble_FullSize(_, _, _, _)
Assemble_FullSize(inputs, batch_size, batch_results, i) ==
    IF i >= Len(batch_results) THEN <<>>
    ELSE (IF IsFailure(batch_results[i + 1])
            THEN [j \in 1..batch_size |-> FailurePlaceholder]
            ELSE batch_results[i + 1].value)
         \o Assemble_FullSize(inputs, batch_size, batch_results, i + 1)

\* llm_service.py 230-236, 286-292: the collecting loop from index i on.
RECURSIVE Assemble(_, _, _, _)
Assemble(inputs, batch_size, batch_results, i) ==
    IF i >= Len(batch_results) THEN <<>>
    ELSE LET batch == Slice(inputs, i * batch_size, (i + 1) * batch_size)
         IN (IF IsFailure(batch_results[i + 1])
               THEN [j \in 1..Len(batch) |-> FailurePlaceholder]
               ELSE batch_results[i + 1].value)
            \o Assemble(inputs, batch_size, batch_results, i + 1)

\* llm_service.py 228-238, 284-294: gather returns when every task has ended;
\* the results are collected in task order.
Collect ==
    /\ batchPc = "gather"
    /\ \A g \in Groups : task[g] = "done"
    /\ output' = Assemble(Inputs, batchSize, results, 0)
    /\ batchPc' = "returned"
    /\ UNCHANGED <<batchKind, nInputs, batchSize, maxConcurrent, batches, task,
                   permits, calls, answered, results>>
    /\ UNCHANGED otherThanBatch

BatchInit ==
    /\ batchKind \in {"summaries", "explanations"}
    /\ nInputs \in 0..MaxInputs
    /\ batchSize \in IF batchKind = "summaries" THEN {SummaryBatchSize}
                     ELSE ExplainBatchSizes
    /\ maxConcurrent \in 1..LLM_MAX_CONCURRENT
    /\ batches = <<>>
    /\ task = <<>>
    /\ permits = 0
    /\ calls = <<>>
    /\ answered = <<>>
    /\ results = <<>>
    /\ batchPc = "start"
    /\ output = <<>>

InitBatch == BatchInit /\ PipeIdle /\ ParseIdle /\ CycleIdle /\ MatchIdle /\ RelIdle /\ RunsIdle /\ AstIdle

NextBatch ==
    \/ CreateTasks
    \/ \E g \in Groups : Acquire(g)
    \/ \E g \in Groups : \E m \in {Len(batches[g]) - 1, Len(batches[g]), Len(batches[g]) + 1} :
           CallReturns(g, m)
    \/ \E g \in Groups : CallFails(g)
    \/ Collect

SpecBatch == InitBatch /\ [][NextBatch]_vars

\* The event loop runs every task that can run, and no external call stays
\* in flight for ever: it returns or fails. A call that can fail is a call in
\* flight, so weak fairness of CallFails states just that (the step that ends
\* the call may as well be CallReturns).
SpecBatchFair ==
    /\ InitBatch
    /\ [][NextBatch]_vars
    /\ WF_vars(CreateTasks)
    /\ WF_vars(\E g \in Groups : Acquire(g))
    /\ WF_vars(\E g \in Groups : CallFails(g))
    /\ WF_vars(Collect)

\* C3: at no time are more groups inside the external call than the
\* configured LLM_MAX_CONCURRENT, and the permits account for them.
C3_BoundedInFlight ==
    batchPc \in {"gather", "returned"} =>
        /\ Cardinality(InFlight) <= maxConcurrent
        /\ permits = maxConcurrent - Cardinality(InFlight)

\* C3 witness: LLM_MAX_CONCURRENT groups are in the external call while
\* another group waits for a permit.
C3_Witness ==
    /\ batchPc = "gather"
    /\ Cardinality(InFlight) = LLM_MAX_CONCURRENT
    /\ \E g \in Groups : task[g] = "pending"

\* The group of input i and its position in that group.
GroupOf(i) == ((i - 1) \div batchSize) + 1

PlaceIn(i) == ((i - 1) % batchSize) + 1

\* C4: the returned list has one element per input, in input order: the
\* failure placeholder at every position of a failed group, and at every
\* position of a successful group the item decoded for that position (the
\* j-th numbered item of the group's response, or the decoder's padding when
\* the response had fewer items).
C4_OutputInInputOrder ==
    batchPc = "returned" =>
        /\ Len(output) = nInputs
        /\ \A i \in 1..nInputs :
              output[i] = IF IsFailure(results[GroupOf(i)]) THEN FailurePlaceholder
                          ELSE IF PlaceIn(i) <= answered[GroupOf(i)]
                                 THEN <<Digit(PlaceIn(i))>>
                                 ELSE PLACEHOLDER

\* C4 witness: 7 explanation inputs in groups of 5; the first group failed
\* and the second succeeded.
C4_Witness ==
    /\ batchPc = "returned"
    /\ batchKind = "explanations" /\ nInputs = 7 /\ batchSize = 5
    /\ IsFailure(results[1]) /\ ~IsFailure(results[2])
    /\ SubSeq(output, 1, 5) = [j \in 1..5 |-> <<"Explanation generation failed">>]
    /\ SubSeq(output, 6, 7) = << <<"1">>, <<"2">> >>

\* C5: every group makes exactly one external call, whatever happens to the
\* others; a group that fails gives its permit back; and the batch call
\* returns, with every permit available again.
C5_EveryGroupCalledOnce ==
    /\ [](\A g \in Groups : calls[g] <= 1 /\ (task[g] # "pending" => calls[g] = 1))
    /\ [](batchPc = "returned" =>
             /\ \A g \in Groups : calls[g] = 1 /\ task[g] = "done"
             /\ permits = maxConcurrent)
    /\ <>(batchPc = "returned")

\* C5 witness: the call returned although a group failed, with more groups
\* than permits and other groups served after the failure.
C5_Witness ==
    /\ batchPc = "returned"
    /\ Len(batches) > maxConcurrent
    /\ IsFailure(results[1])
    /\ \E g \in Groups : ~IsFailure(results[g])
    /\ permits = maxConcurrent

RECURSIVE Flatten(_)
Flatten(ss) == IF ss = <<>> THEN <<>> ELSE Head(ss) \o Flatten(Tail(ss))

\* C6: ceil(n/s) groups; concatenated in order they give the input list back
\* (contiguous, disjoint, covering); every group but the last has s members
\* and the last has between 1 and s.
C6_GroupsPartitionInput ==
    batchPc \in {"gather", "returned"} =>
        /\ Len(batches) = (nInputs + batchSize - 1) \div batchSize
        /\ Flatten(batches) = Inputs
        /\ \A g \in Groups : g < Len(batches) => Len(batches[g]) = batchSize
        /\ batches # <<>> => Len(batches[Len(batches)]) \in 1..batchSize

\* C6 witness: 7 inputs in groups of 5 give two groups, of sizes 5 and 2.
C6_Witness ==
    /\ batchPc = "gather"
    /\ nInputs = 7 /\ batchSize = 5
    /\ batches = << <<1, 2, 3, 4, 5>>, <<6, 7>> >>

----------------------------------------------------------------------------
\* Cycle detection: RelationshipDetector.detect_circular_dependencies

\* Bound on the number of files of the repository.
MaxFiles == 3

\* The values of a matrix entry: no import, or imports.
Counts == {0, 1}

\* dependency_matrix.keys(), and every row's keys, in enumeration order.
Files(m) == 1..Len(m)

\* An entry that counts as an edge, tested with >= instead of >.
HasEdge_OrZero(m, node, neighbor) == m[node][neighbor] >= 0

\* relationship_detector.py 367: count > 0
HasEdge(m, node, neighbor) == m[node][neighbor] > 0

\* path.index(x)
RECURSIVE IndexOf(_, _, _)
IndexOf(path, x, i) == IF path[i] = x THEN i ELSE IndexOf(path, x, i + 1)

\* The sub-path from the neighbor on, without the closing neighbor.
CycleAt_Open(path, neighbor) ==
    SubSeq(path, IndexOf(path, neighbor, 1), Len(path))

\* The whole path closed with the neighbor: cycle_start taken as 0.
CycleAt_WholePath(path, neighbor) == path \o <<neighbor>>

\* relationship_detector.py 372-373
CycleAt(path, neighbor) ==
    SubSeq(path, IndexOf(path, neighbor, 1), Len(path)) \o <<neighbor>>

\* relationship_detector.py 360-378: dfs(node, path) on the state st of the
\* enclosing call (cycles, visited, rec_stack, path, and the count of body
\* executions); DfsLoop is the loop over the row of node from neighbor nb on.
\* dfs calls itself once per node of the branch it follows (line 369): a call
\* deeper than the interpreter allows raises RecursionError, which nothing in
\* 346-385 catches, so that the loops above it are left.
RECURSIVE Dfs(_, _, _), DfsLoop(_, _, _, _)
Dfs(m, node, st) ==
    IF Len(st.path) >= st.frames THEN [st EXCEPT !.raised = TRUE]
    ELSE LET entered == [st EXCEPT !.visited = @ \cup {node},
                                   !.rec_stack = @ \cup {node},
                                   !.path = Append(@, node),
                                   !.calls = @ + 1]
             looped == DfsLoop(m, node, 1, entered)
         IN IF looped.raised THEN looped
            ELSE [looped EXCEPT !.path = SubSeq(@, 1, Len(@) - 1),
                                !.rec_stack = @ \ {node}]

DfsLoop(m, node, nb, st) ==
    IF nb > Len(m) \/ st.raised THEN st
    ELSE IF ~HasEdge(m, node, nb) THEN DfsLoop(m, node, nb + 1, st)
    ELSE IF nb \notin st.visited THEN DfsLoop(m, node, nb + 1, Dfs(m, nb, st))
    ELSE IF nb \in st.rec_stack
      THEN LET cycle == CycleAt(st.path, nb)
           IN DfsLoop(m, node, nb + 1,
                      IF \E i \in 1..Len(st.cycles) : st.cycles[i] = cycle
                        THEN st
                        ELSE [st EXCEPT !.cycles = Append(@, cycle)])
    ELSE DfsLoop(m, node, nb + 1, st)

\* The root loop starting the search at the first file only.
RECURSIVE Roots_FirstOnly(_, _, _)
Roots_FirstOnly(m, f, st) ==
    IF f > Len(m) \/ f > 1 \/ st.raised THEN st
    ELSE Roots_FirstOnly(m, f + 1, IF f \notin st.visited THEN Dfs(m, f, st) ELSE st)

\* The root loop with a visited set of its own for every root.
RECURSIVE Roots_FreshVisited(_, _, _)
Roots_FreshVisited(m, f, st) ==
    IF f > Len(m) \/ st.raised THEN st
    ELSE Roots_FreshVisited(m, f + 1, Dfs(m, f, [st EXCEPT !.visited = {}]))

\* relationship_detector.py 381-383: every unvisited file is a root.
RECURSIVE Roots(_, _, _)
Roots(m, f, st) ==
    IF f > Len(m) \/ st.raised THEN st
    ELSE Roots(m, f + 1, IF f \notin st.visited THEN Dfs(m, f, st) ELSE st)

\* relationship_detector.py 356-385, with room for limit nested dfs calls.
DetectCycles(m, limit) ==
    Roots(m, 1, [cycles |-> <<>>, visited |-> {}, rec_stack |-> {},
                 path |-> <<>>, calls |-> 0, frames |-> limit,
                 raised |-> FALSE])

\* The room for nested dfs calls: enough for a branch through every file, or
\* one call less (the interpreter's limit is 1000 frames by default, some of
\* them in use when the request handler runs; file counts are scaled down
\* here in the same way).
FrameLimits == {MaxFiles - 1, MaxFiles}

\* get_dependency_matrix gives a square matrix over the repository's files.
CycleInit ==
    /\ \E n \in 0..MaxFiles : matrix \in [1..n -> [1..n -> Counts]]
    /\ cycles = <<>>
    /\ dfsCalls = 0
    /\ cyclePc = "start"
    /\ frames \in FrameLimits

\* One call of detect_circular_dependencies.
DetectCircularDependencies ==
    /\ cyclePc = "start"
    /\ LET st == DetectCycles(matrix, frames)
       IN /\ cycles' = IF st.raised THEN <<>> ELSE st.cycles
          /\ dfsCalls' = st.calls
          /\ cyclePc' = IF st.raised THEN "raised" ELSE "done"
    /\ UNCHANGED <<matrix, frames>>
    /\ UNCHANGED otherThanCycle

InitCycle == CycleInit /\ PipeIdle /\ ParseIdle /\ BatchIdle /\ MatchIdle /\ RelIdle /\ RunsIdle /\ AstIdle

NextCycle == DetectCircularDependencies

SpecCycle == InitCycle /\ [][NextCycle]_vars

\* C9: a matrix with no nonzero entry has no cycle reported.
C9_ZeroMatrixNoCycles ==
    (cyclePc = "done" /\ \A a, b \in Files(matrix) : matrix[a][b] = 0)
        => cycles = <<>>

\* C9 witness: the detector ran on an all-zero matrix over three files.
C9_Witness ==
    /\ cyclePc = "done"
    /\ Len(matrix) = 3
    /\ \A a, b \in Files(matrix) : matrix[a][b] = 0
    /\ dfsCalls = 3

SimpleCycles(m) ==
    UNION {{p \in [1..k -> Files(m)] :
               /\ \A i, j \in 1..k : i # j => p[i] # p[j]
               /\ \A i \in 1..k : m[p[i]][p[IF i = k THEN 1 ELSE i + 1]] > 0}
           : k \in 1..Len(m)}

\* c is the closed walk of p started at some file of p.
IsRotationOf(c, p) ==
    /\ Len(c) = Len(p) + 1
    /\ \E r \in 0..(Len(p) - 1) :
          \A i \in 1..Len(c) : c[i] = p[((i - 1 + r) % Len(p)) + 1]

\* C12: every simple cycle of the graph of nonzero entries is in the result,
\* in some rotation.
C12_AllSimpleCyclesReported ==
    cyclePc = "done" =>
        \A p \in SimpleCycles(matrix) :
            \E i \in 1..Len(cycles) : IsRotationOf(cycles[i], p)

----------------------------------------------------------------------------
\* Import resolution: RelationshipDetector._is_import_match

UpperCase ==
    <<"A", "B", "C", "D", "E", "F", "G", "H", "I", "J", "K", "L", "M",
      "N", "O", "P", "Q", "R", "S", "T", "U", "V", "W", "X", "Y", "Z">>

LowerCase ==
    <<"a", "b", "c", "d", "e", "f", "g", "h", "i", "j", "k", "l", "m",
      "n", "o", "p", "q", "r", "s", "t", "u", "v", "w", "x", "y", "z">>

\* str.lower(), one character
LowerOf(c) ==
    IF \E i \in 1..Len(UpperCase) : UpperCase[i] = c
      THEN LowerCase[CHOOSE i \in 1..Len(UpperCase) : UpperCase[i] = c]
      ELSE c

\* str.lower()
Lower(s) == [i \in 1..Len(s) |-> LowerOf(s[i])]

\* str.replace(a, b) for one-character a and b
ReplaceChar(s, a, b) == [i \in 1..Len(s) |-> IF s[i] = a THEN b ELSE s[i]]

\* str.strip(chars)
StripChars(s, S) ==
    LET a == SkipWhile(s, 1, S)
        b == SkipBack(s, Len(s), S)
    IN IF a > b THEN <<>> ELSE SubSeq(s, a, b)

\* str.startswith(prefix)
StartsWith(s, prefix) ==
    Len(prefix) <= Len(s) /\ SubSeq(s, 1, Len(prefix)) = prefix

\* str.endswith(suffix)
EndsWith(s, suffix) ==
    Len(suffix) <= Len(s) /\ SubSeq(s, Len(s) - Len(suffix) + 1, Len(s)) = suffix

\* The last position <= i of s holding character c (0 if none).
RECURSIVE FindLast(_, _, _)
FindLast(s, i, c) ==
    IF i < 1 THEN 0
    ELSE IF s[i] = c THEN i
    ELSE FindLast(s, i - 1, c)

\* s.rsplit('.', 1)[0]
RSplitDotHead(s) ==
    LET d == FindLast(s, Len(s), ".")
    IN IF d = 0 THEN s ELSE SubSeq(s, 1, d - 1)

\* s.replace(sub, ''): every occurrence, left to right, non-overlapping.
RECURSIVE RemoveAll(_, _)
RemoveAll(s, sub) ==
    IF s = <<>> THEN <<>>
    ELSE IF StartsWith(s, sub) THEN RemoveAll(SubSeq(s, Len(sub) + 1, Len(s)), sub)
    ELSE <<Head(s)>> \o RemoveAll(Tail(s), sub)

INIT_SUFFIX == <<"/", "_", "_", "i", "n", "i", "t", "_", "_">>

\* relationship_detector.py 235
ImportNormalized(import_path) ==
    StripChars(ReplaceChar(import_path, ".", "/"), {".", "/", " "})

\* relationship_detector.py 236
FileNormalized(file_path) == Lower(ReplaceChar(file_path, "\\", "/"))

\* relationship_detector.py 239-243
FileBase(file_path) ==
    LET base == RSplitDotHead(FileNormalized(file_path))
    IN IF EndsWith(base, INIT_SUFFIX) THEN RemoveAll(base, INIT_SUFFIX) ELSE base

\* The equal-only rule: the directory-prefix test of line 252 left out.
IsImportMatch_EqualOnly(import_path, file_path) ==
    ImportNormalized(import_path) = FileBase(file_path)

\* relationship_detector.py 224-255
IsImportMatch(import_path, file_path) ==
    LET import_normalized == ImportNormalized(import_path)
        file_base == FileBase(file_path)
    IN \/ file_base = import_normalized
       \/ StartsWith(file_base, import_normalized \o <<"/">>)

\* Path components of the sample repositories.
Utils == <<"u", "t", "i", "l", "s">>

Helpers == <<"h", "e", "l", "p", "e", "r", "s">>

Models == <<"m", "o", "d", "e", "l", "s">>

Button == <<"B", "u", "t", "t", "o", "n">>

DunderInit == <<"_", "_", "i", "n", "i", "t", "_", "_">>

Index == <<"i", "n", "d", "e", "x">>

PathNames == {Utils, Helpers, Models, Button}

\* Bound on the directories above a file.
MaxDirs == 2

\* Bound on the components of an import path.
MaxComps == 2

\* sep.join(parts)
RECURSIVE JoinWith(_, _)
JoinWith(parts, sep) ==
    IF parts = <<>> THEN <<>>
    ELSE IF Len(parts) = 1 THEN parts[1]
    ELSE parts[1] \o sep \o JoinWith(Tail(parts), sep)

SeqsUpTo(S, lo, hi) == UNION {[1..k -> S] : k \in lo..hi}

\* An import string as _extract_imports captures it: a dotted module path
\* ('utils.helpers') or a quoted module specifier ('./utils/helpers').
MkImport(prefix, sep, comps) == prefix \o JoinWith(comps, sep)

\* A stored file path: directories, base name and extension.
MkFile(dirs, base, ext, sep) == JoinWith(Append(dirs, base), sep) \o ext

ImportPrefixes == {<<>>, <<".", "/">>}

ImportSeps == {<<".">>, <<"/">>}

FileSeps == {<<"/">>, <<"\\">>}

Extensions == {<<".", "p", "y">>, <<".", "j", "s">>}

ImportPaths ==
    {MkImport(p, sep, cs) : p \in ImportPrefixes, sep \in ImportSeps,
                            cs \in SeqsUpTo(PathNames, 1, MaxComps)}

FilePaths ==
    {MkFile(ds, b, e, sep) : ds \in SeqsUpTo(PathNames, 0, MaxDirs),
                             b \in PathNames \cup {DunderInit, Index},
                             e \in Extensions, sep \in FileSeps}

MatchInit ==
    /\ importPath \in ImportPaths
    /\ filePath \in FilePaths
    /\ matched = FALSE
    /\ matchPc = "start"

\* One call of _is_import_match.
IsImportMatchCall ==
    /\ matchPc = "start"
    /\ matched' = IsImportMatch(importPath, filePath)
    /\ matchPc' = "done"
    /\ UNCHANGED <<importPath, filePath>>
    /\ UNCHANGED otherThanMatch

InitMatch == MatchInit /\ PipeIdle /\ ParseIdle /\ BatchIdle /\ CycleIdle /\ RelIdle /\ RunsIdle /\ AstIdle

NextMatch == IsImportMatchCall

SpecMatch == InitMatch /\ [][NextMatch]_vars

Front(q) == SubSeq(q, 1, Len(q) - 1)

\* C18: a dotted or './'-prefixed module path matches the file at that path
\* with any extension, a package path matches its __init__ or index file, and
\* a one-name import does not match a file of that name in another directory.
C18_ModuleAndPackageMatch ==
    matchPc = "done" =>
        \A p \in ImportPrefixes, sep \in ImportSeps, e \in Extensions,
           fsep \in FileSeps, cs \in SeqsUpTo(PathNames, 1, MaxComps) :
            importPath = MkImport(p, sep, cs) =>
                /\ filePath = MkFile(Front(cs), Last(cs), e, fsep) => matched
                /\ filePath \in {MkFile(cs, DunderInit, e, fsep),
                                 MkFile(cs, Index, e, fsep)} => matched
                /\ \A d \in PathNames :
                      (Len(cs) = 1 /\ Lower(d) # Lower(cs[1])
                         /\ filePath = MkFile(<<d>>, cs[1], e, fsep)) => ~matched

\* str.split('/')
RECURSIVE SplitSlash(_)
SplitSlash(s) ==
    LET e == FindChar(s, 1, "/")
    IN IF e > Len(s) THEN <<s>>
       ELSE <<SubSeq(s, 1, e - 1)>> \o SplitSlash(SubSeq(s, e + 1, Len(s)))

IsPrefixSeq(a, b) == Len(a) <= Len(b) /\ SubSeq(b, 1, Len(a)) = a

\* The normalized file path with a trailing index component collapsed too.
CollapsedBase(file_path) ==
    LET parts == SplitSlash(FileBase(file_path))
    IN IF Len(parts) > 1 /\ Last(parts) = Index THEN Front(parts) ELSE parts

\* C19 as stated: a match exactly when the normalized file path equals the
\* normalized import path or lies exactly one level under it.
C19_EqualOrOneLevelBelow ==
    matchPc = "done" =>
        LET imp == SplitSlash(ImportNormalized(importPath))
            fil == CollapsedBase(filePath)
        IN matched <=> /\ IsPrefixSeq(imp, fil)
                       /\ Len(fil) <= Len(imp) + 1

\* C19 amended: a match exactly when the components of the import path
\* (dots turned to slashes, './ ' stripped at both ends) are a prefix of the
\* components of the file path (lowercased, text after the last dot dropped,
\* '/__init__' removed), at any depth below it.
C19_EqualOrAnyLevelBelow ==
    matchPc = "done" =>
        (matched <=> IsPrefixSeq(SplitSlash(ImportNormalized(importPath)),
                                 SplitSlash(FileBase(filePath))))

\* C19 witness: 'utils' matched with 'utils/helpers/models.py', two levels
\* below the import path.
C19_Witness ==
    /\ matchPc = "done"
    /\ importPath = Utils
    /\ filePath = MkFile(<<Utils, Helpers>>, Models, <<".", "p", "y">>, <<"/">>)
    /\ matched

----------------------------------------------------------------------------
\* Relationship extraction: RelationshipDetector.detect_all_relationships.
\* A code snippet is a sequence of lines; a line is its indentation and its
\* tokens, each token a string of characters; tokens are separated by
\* whitespace, except that nothing need separate a token from a following
\* "(" token.

Letters == Range(UpperCase) \cup Range(LowerCase)

\* [a-zA-Z_]
IdentStart == Letters \cup {"_"}

\* [a-zA-Z0-9_], which is also \w
IdentChars == IdentStart \cup DIGITS

\* [a-zA-Z0-9_$]
JsIdentChars == IdentChars \cup {"$"}

\* [a-zA-Z0-9._]
ModuleChars == Letters \cup DIGITS \cup {".", "_"}

\* relationship_detector.py 137-139
Keywords ==
    {<<"i", "f">>,
     <<"f", "o", "r">>,
     <<"w", "h", "i", "l", "e">>,
     <<"d", "e", "f">>,
     <<"c", "l", "a", "s", "s">>,
     <<"r", "e", "t", "u", "r", "n">>,
     <<"w", "i", "t", "h">>,
     <<"t", "r", "y">>,
     <<"e", "x", "c", "e", "p", "t">>,
     <<"e", "l", "i", "f">>,
     <<"e", "l", "s", "e">>,
     <<"s", "w", "i", "t", "c", "h">>,
     <<"c", "a", "s", "e">>,
     <<"d", "o">>,
     <<"c", "a", "t", "c", "h">>,
     <<"f", "i", "n", "a", "l", "l", "y">>,
     <<"f", "u", "n", "c", "t", "i", "o", "n">>,
     <<"c", "o", "n", "s", "t">>,
     <<"l", "e", "t">>,
     <<"v", "a", "r">>,
     <<"n", "e", "w">>,
     <<"t", "y", "p", "e", "o", "f">>,
     <<"i", "n", "s", "t", "a", "n", "c", "e", "o", "f">>,
     <<"d", "e", "l", "e", "t", "e">>,
     <<"t", "h", "r", "o", "w">>}

OPEN == <<"(">>

CLOSE == <<")">>

COMMA == <<",">>

QUOTES == {<<"'">>, <<"\"">>}

KW_DEF == <<"d", "e", "f">>

KW_CLASS == <<"c", "l", "a", "s", "s">>

KW_EXTENDS == <<"e", "x", "t", "e", "n", "d", "s">>

KW_IMPORT == <<"i", "m", "p", "o", "r", "t">>

KW_FROM == <<"f", "r", "o", "m">>

KW_REQUIRE == <<"r", "e", "q", "u", "i", "r", "e">>

KW_RETURN == <<"r", "e", "t", "u", "r", "n">>

\* The tokens of the whole snippet, in order.
RECURSIVE Tokens(_)
Tokens(code) ==
    IF code = <<>> THEN <<>> ELSE Head(code).toks \o Tokens(Tail(code))

\* The longest suffix of token t made of characters of S.
TrailingRun(t, S) == SubSeq(t, SkipBack(t, Len(t), S) + 1, Len(t))

\* The longest prefix of token t made of characters of S.
LeadingRun(t, S) == SubSeq(t, 1, SkipWhile(t, 1, S) - 1)

\* str.isidentifier(), and a full match of [a-zA-Z_][a-zA-Z0-9_]*
IsIdentifier(t) ==
    t # <<>> /\ t[1] \in IdentStart /\ \A i \in 1..Len(t) : t[i] \in IdentChars

\* What \b([a-zA-Z_][a-zA-Z0-9_]*)\s*\( captures in token t standing before
\* a "(": the trailing run of word characters, if it starts with a letter
\* or "_" (the empty string if there is no match).
PyCallName(t) ==
    LET run == TrailingRun(t, IdentChars)
    IN IF run # <<>> /\ run[1] \in IdentStart THEN run ELSE <<>>

\* What ([a-zA-Z_$][a-zA-Z0-9_$]*)\s*\( captures in token t standing before
\* a "(": the trailing run of identifier characters from its first
\* non-digit on.
JsCallName(t) ==
    LET run == TrailingRun(t, JsIdentChars)
    IN SubSeq(run, SkipWhile(run, 1, DIGITS), Len(run))

\* relationship_detector.py 132-156
ExtractFunctionCalls(code) ==
    LET ts == Tokens(code)
        before == {i \in 1..(Len(ts) - 1) : ts[i + 1] = OPEN}
    IN ({PyCallName(ts[i]) : i \in before} \cup {JsCallName(ts[i]) : i \in before})
           \ (Keywords \cup {<<>>})

\* relationship_detector.py 158-172: per line (re.MULTILINE)
ExtractClassMethods(code) ==
    LET py == {LeadingRun(code[l].toks[2], IdentChars) :
                  l \in {l \in 1..Len(code) :
                            /\ code[l].indent >= 2
                            /\ Len(code[l].toks) >= 2
                            /\ code[l].toks[1] = KW_DEF
                            /\ code[l].toks[2][1] \in IdentStart}}
        js == {code[l].toks[1] :
                  l \in {l \in 1..Len(code) :
                            /\ code[l].indent >= 1
                            /\ Len(code[l].toks) >= 2
                            /\ code[l].toks[2] = OPEN
                            /\ code[l].toks[1][1] \in (IdentStart \cup {"$"})
                            /\ \A i \in 1..Len(code[l].toks[1]) :
                                  code[l].toks[1][i] \in JsIdentChars}}
    IN py \cup js

\* parent.strip().split('[')[0].strip() of a token
BeforeBracket(t) == SubSeq(t, 1, FindChar(t, 1, "[") - 1)

\* The position of the first ")" token at or after i (Len(ts)+1 if none).
RECURSIVE FindClose(_, _)
FindClose(ts, i) ==
    IF i > Len(ts) THEN i
    ELSE IF ts[i] = CLOSE THEN i
    ELSE FindClose(ts, i + 1)

\* The parts of the token list ts[a..b] between "," tokens that consist of
\* one token (a part of several tokens holds whitespace and is no
\* identifier).
SingleTokenParts(ts, a, b) ==
    {ts[i] : i \in {i \in a..b :
                      /\ ts[i] # COMMA
                      /\ (i = a \/ ts[i - 1] = COMMA)
                      /\ (i = b \/ ts[i + 1] = COMMA)}}

\* relationship_detector.py 174-196
ExtractParentClasses(code) ==
    LET ts == Tokens(code)
        heads == {i \in 1..(Len(ts) - 3) :
                     /\ EndsWith(ts[i], KW_CLASS)
                     /\ \A k \in 1..Len(ts[i + 1]) : ts[i + 1][k] \in IdentChars
                     /\ ts[i + 2] = OPEN
                     /\ FindClose(ts, i + 3) \in (i + 4)..Len(ts)}
        py == UNION {{BeforeBracket(p) :
                         p \in SingleTokenParts(ts, i + 3, FindClose(ts, i + 3) - 1)}
                     : i \in heads}
        js == {LeadingRun(ts[i + 3], JsIdentChars) :
                  i \in {i \in 1..(Len(ts) - 3) :
                            /\ EndsWith(ts[i], KW_CLASS)
                            /\ \A k \in 1..Len(ts[i + 1]) : ts[i + 1][k] \in IdentChars
                            /\ ts[i + 2] = KW_EXTENDS
                            /\ ts[i + 3][1] \in (IdentStart \cup {"$"})}}
    IN {p \in py : IsIdentifier(p)} \cup js

\* The quoted module specifier that import ... from '...' yields on one line
\* (greedy .*: the last from followed by a quoted string), or none.
JsImportOf(toks) ==
    LET froms == {j \in 2..(Len(toks) - 3) :
                     /\ \E i \in 1..(j - 1) : EndsWith(toks[i], KW_IMPORT)
                     /\ EndsWith(toks[j], KW_FROM)
                     /\ toks[j + 1] \in QUOTES
                     /\ toks[j + 3] \in QUOTES}
    IN IF froms = {} THEN {}
       ELSE {toks[(CHOOSE j \in froms : \A k \in froms : k <= j) + 2]}

\* relationship_detector.py 198-222
ExtractImports(code) ==
    LET ts == Tokens(code)
        py1 == {ts[i + 1] :
                   i \in {i \in 1..(Len(ts) - 2) :
                             /\ EndsWith(ts[i], KW_FROM)
                             /\ \A k \in 1..Len(ts[i + 1]) : ts[i + 1][k] \in ModuleChars
                             /\ StartsWith(ts[i + 2], KW_IMPORT)}}
        py2 == {LeadingRun(ts[i + 1], ModuleChars) :
                   i \in {i \in 1..(Len(ts) - 1) : EndsWith(ts[i], KW_IMPORT)}}
        js1 == UNION {JsImportOf(code[l].toks) : l \in 1..Len(code)}
        js2 == {ts[i + 3] :
                   i \in {i \in 1..(Len(ts) - 4) :
                             /\ EndsWith(ts[i], KW_REQUIRE)
                             /\ ts[i + 1] = OPEN
                             /\ ts[i + 2] \in QUOTES
                             /\ ts[i + 4] \in QUOTES}}
    IN (py1 \cup py2 \cup js1 \cup js2) \ {<<>>}

Line(n, ts) == [indent |-> n, toks |-> ts]

\* The code slices of the sample entities: a function that calls callee, a
\* class that derives from callee and defines a method callee, a function
\* that imports callee from utils and calls it.
FunctionCode(name, callee) ==
    <<Line(0, <<KW_DEF, name, OPEN, CLOSE>>),
      Line(4, <<KW_RETURN, callee, OPEN, CLOSE>>)>>

ClassCode(name, callee) ==
    <<Line(0, <<KW_CLASS, name, OPEN, callee, CLOSE>>),
      Line(4, <<KW_DEF, callee, OPEN, CLOSE>>)>>

ImportCode(name, callee) ==
    <<Line(0, <<KW_FROM, Utils, KW_IMPORT, callee>>),
      Line(0, <<KW_DEF, name, OPEN, CLOSE>>),
      Line(4, <<callee, OPEN, CLOSE>>)>>

EntityNames == {<<"f">>, <<"g">>}

EntityKinds == {"function", "class", "importer", "nocode"}

CodeOf(kind, name, callee) ==
    CASE kind = "function" -> FunctionCode(name, callee)
      [] kind = "class"    -> ClassCode(name, callee)
      [] kind = "importer" -> ImportCode(name, callee)
      [] kind = "nocode"   -> <<>>

\* EntityType of the sample entity
TypeOf(kind) == IF kind = "class" THEN "class" ELSE "function"

\* Bound on the repositories in the store.
MaxRepos == 2

\* Bound on the entities in the store.
MaxEntities == 3

\* Bound on the invocations of detect_all_relationships.
MaxDetectCalls == 2

Repos == 1..MaxRepos

\* The files table: repository 1 holds utils.py and utils/helpers.py, every
\* other repository holds a utils.py of its own.
SampleFiles ==
    <<[repo |-> 1, path |-> MkFile(<<>>, Utils, <<".", "p", "y">>, <<"/">>)],
      [repo |-> 1, path |-> MkFile(<<Utils>>, Helpers, <<".", "p", "y">>, <<"/">>)]>>
    \o [r \in 1..(MaxRepos - 1) |->
           [repo |-> r + 1, path |-> MkFile(<<>>, Utils, <<".", "p", "y">>, <<"/">>)]]

\* The first file of repository r: the file of its sample entities.
FirstFileOf(r) == CHOOSE i \in 1..Len(SampleFiles) :
                      /\ SampleFiles[i].repo = r
                      /\ \A j \in 1..(i - 1) : SampleFiles[j].repo # r

\* One row of the entities table (its id is its position in the table).
MkEntity(r, name, kind, callee) ==
    [repo_id |-> r, file_id |-> FirstFileOf(r), name |-> name,
     type |-> TypeOf(kind), code_snippet |-> CodeOf(kind, name, callee)]

NoMetadata == [source_file |-> <<>>, target_file |-> <<>>, import_name |-> <<>>]

\* A Relationship row; target_entity_id 0 stands for None.
Rel(source, target, type, metadata) ==
    [source_entity_id |-> source, target_entity_id |-> target,
     relationship_type |-> type, rel_metadata |-> metadata]

\* A set as a sequence, in some order (iteration order of a Python set).
RECURSIVE SetToSeq(_)
SetToSeq(S) ==
    IF S = {} THEN <<>>
    ELSE LET x == CHOOSE x \in S : TRUE IN <<x>> \o SetToSeq(S \ {x})

\* The rows of every repository: the WHERE clause of line 27 left out.
EntitiesOf_AllRepos(ents, repo_id) == 1..Len(ents)

\* relationship_detector.py 26-29: select(Entity).where(Entity.repo_id == repo_id)
EntitiesOf(ents, repo_id) == {i \in 1..Len(ents) : ents[i].repo_id = repo_id}

\* relationship_detector.py 32: a later entity of the same name replaces an
\* earlier one.
EntityMap(ents, ids) ==
    [n \in {ents[i].name : i \in ids} |->
        CHOOSE i \in ids : /\ ents[i].name = n
                           /\ \A j \in ids : ents[j].name = n => j <= i]

\* relationship_detector.py 37-76 with the test called_name != entity.name of
\* line 43 left out.
RelsOfEntity_WithSelf(ents, e, entity_map) ==
    LET entity == ents[e]
        code == entity.code_snippet
        known == DOMAIN entity_map
        called == {n \in ExtractFunctionCalls(code) : n \in known}
        contained == IF entity.type = "class"
                       THEN ExtractClassMethods(code) \cap known ELSE {}
        parents == IF entity.type = "class"
                     THEN ExtractParentClasses(code) \cap known ELSE {}
        Rows(names, type) ==
            LET q == SetToSeq(names)
            IN [k \in 1..Len(q) |-> Rel(e, entity_map[q[k]], type, NoMetadata)]
    IN IF code = <<>> THEN <<>>
       ELSE Rows(called, "calls") \o Rows(contained, "contains")
                \o Rows(parents, "inherits")

\* relationship_detector.py 37-76: the relationships of one entity.
RelsOfEntity(ents, e, entity_map) ==
    LET entity == ents[e]
        code == entity.code_snippet
        known == DOMAIN entity_map
        called == {n \in ExtractFunctionCalls(code) : n \in known /\ n # entity.name}
        contained == IF entity.type = "class"
                       THEN ExtractClassMethods(code) \cap known ELSE {}
        parents == IF entity.type = "class"
                     THEN ExtractParentClasses(code) \cap known ELSE {}
        Rows(names, type) ==
            LET q == SetToSeq(names)
            IN [k \in 1..Len(q) |-> Rel(e, entity_map[q[k]], type, NoMetadata)]
    IN IF code = <<>> THEN <<>>
       ELSE Rows(called, "calls") \o Rows(contained, "contains")
                \o Rows(parents, "inherits")

\* relationship_detector.py 36-76: the loop over the entities, from row e on.
RECURSIVE EntityRels(_, _, _, _)
EntityRels(ents, ids, entity_map, e) ==
    IF e > Len(ents) THEN <<>>
    ELSE (IF e \in ids THEN RelsOfEntity(ents, e, entity_map) ELSE <<>>)
             \o EntityRels(ents, ids, entity_map, e + 1)

\* relationship_detector.py 93, 113: the keys of file_map in insertion order
\* (each path once, at its first occurrence among the repository's files).
RECURSIVE FileMapKeys(_, _, _)
FileMapKeys(fls, repo_id, f) ==
    IF f > Len(fls) THEN <<>>
    ELSE LET rest == FileMapKeys(fls, repo_id, f + 1)
             dup == \E j \in 1..(f - 1) :
                        fls[j].repo = repo_id /\ fls[j].path = fls[f].path
         IN IF fls[f].repo = repo_id /\ ~dup THEN <<fls[f].path>> \o rest ELSE rest

\* relationship_detector.py 113-128 without the break of line 128 taking
\* effect on the choice: the last key that matches, if any.
RECURSIVE FirstMatch_Last(_, _, _)
FirstMatch_Last(imported_path, keys, k) ==
    IF k > Len(keys) THEN 0
    ELSE LET later == FirstMatch_Last(imported_path, keys, k + 1)
         IN IF later # 0 THEN later
            ELSE IF IsImportMatch(imported_path, keys[k]) THEN k
            ELSE 0

\* relationship_detector.py 113-128: the first key that matches, if any.
RECURSIVE FirstMatch(_, _, _)
FirstMatch(imported_path, keys, k) ==
    IF k > Len(keys) THEN 0
    ELSE IF IsImportMatch(imported_path, keys[k]) THEN k
    ELSE FirstMatch(imported_path, keys, k + 1)

\* relationship_detector.py 104-128 with the importing entity as the target
\* of the row in place of None.
ImportsOfEntity_TargetSelf(ents, e, source_path, keys) ==
    LET q == SetToSeq(ExtractImports(ents[e].code_snippet))
        hits == {k \in 1..Len(q) : FirstMatch(q[k], keys, 1) # 0}
        RECURSIVE Rows(_)
        Rows(k) ==
            IF k > Len(q) THEN <<>>
            ELSE (IF k \in hits
                    THEN <<Rel(e, e, "imports",
                               [source_file |-> source_path,
                                target_file |-> keys[FirstMatch(q[k], keys, 1)],
                                import_name |-> q[k]])>>
                    ELSE <<>>) \o Rows(k + 1)
    IN IF ents[e].code_snippet = <<>> THEN <<>> ELSE Rows(1)

\* relationship_detector.py 104-128: the imports relationships of one entity
\* of the file at source_path.
ImportsOfEntity(ents, e, source_path, keys) ==
    LET q == SetToSeq(ExtractImports(ents[e].code_snippet))
        hits == {k \in 1..Len(q) : FirstMatch(q[k], keys, 1) # 0}
        RECURSIVE Rows(_)
        Rows(k) ==
            IF k > Len(q) THEN <<>>
            ELSE (IF k \in hits
                    THEN <<Rel(e, 0, "imports",
                               [source_file |-> source_path,
                                target_file |-> keys[FirstMatch(q[k], keys, 1)],
                                import_name |-> q[k]])>>
                    ELSE <<>>) \o Rows(k + 1)
    IN IF ents[e].code_snippet = <<>> THEN <<>> ELSE Rows(1)

\* relationship_detector.py 99-128: the entities of file f, from row e on.
RECURSIVE FileImports(_, _, _, _, _)
FileImports(ents, fls, f, keys, e) ==
    IF e > Len(ents) THEN <<>>
    ELSE (IF ents[e].file_id = f
            THEN ImportsOfEntity(ents, e, fls[f].path, keys) ELSE <<>>)
             \o FileImports(ents, fls, f, keys, e + 1)

\* relationship_detector.py 84-130: _detect_imports, from file f on.
RECURSIVE DetectImports(_, _, _, _)
DetectImports(ents, fls, repo_id, f) ==
    IF f > Len(fls) THEN <<>>
    ELSE (IF fls[f].repo = repo_id
            THEN FileImports(ents, fls, f, FileMapKeys(fls, repo_id, 1), 1)
            ELSE <<>>)
             \o DetectImports(ents, fls, repo_id, f + 1)

\* An entity name that is one of the excluded keywords (a method named new).
KW_NEW == <<"n", "e", "w">>

\* Tables that hold a function named new next to a function that calls
\* callee, which may be new.
KeywordTables ==
    {<<MkEntity(r, KW_NEW, "function", c), MkEntity(r2, n, "function", c2)>> :
        r \in Repos, r2 \in Repos, n \in EntityNames,
        c \in EntityNames, c2 \in EntityNames \cup {KW_NEW}}

RelInit ==
    /\ \/ \E n \in 1..MaxEntities :
             entities \in [1..n -> {MkEntity(r, name, kind, callee) :
                                       r \in Repos, name \in EntityNames,
                                       kind \in EntityKinds, callee \in EntityNames}]
       \/ entities \in KeywordTables
    /\ files = SampleFiles
    /\ rels = <<>>
    /\ detections = <<>>
    /\ matrixQueries = <<>>
    /\ graphQueries = <<>>

\* detect_all_relationships preceded by a delete of the relationships whose
\* source is an entity of repo_id.
DetectAllRelationships_DeleteFirst(repo_id) ==
    /\ Len(detections) < MaxDetectCalls
    /\ LET ids == EntitiesOf(entities, repo_id)
           kept == SelectSeq(rels, LAMBDA r : r.source_entity_id \notin ids)
           created == EntityRels(entities, ids, EntityMap(entities, ids), 1)
           imports == DetectImports(entities, files, repo_id, 1)
       IN /\ rels' = kept \o created \o imports
          /\ detections' = Append(detections,
                                  [repo_id |-> repo_id,
                                   returned |-> Len(created),
                                   first |-> Len(kept) + 1,
                                   last |-> Len(kept) + Len(created) + Len(imports)])
    /\ UNCHANGED <<entities, files, matrixQueries, graphQueries>>
    /\ UNCHANGED otherThanRel

\* relationship_detector.py 18-82: one call of detect_all_relationships; the
\* rows it adds are committed together at line 81, and it returns
\* relationships_created, the count of the rows of lines 36-76.
DetectAllRelationships(repo_id) ==
    /\ Len(detections) < MaxDetectCalls
    /\ LET ids == EntitiesOf(entities, repo_id)
           created == EntityRels(entities, ids, EntityMap(entities, ids), 1)
           imports == DetectImports(entities, files, repo_id, 1)
       IN /\ rels' = rels \o created \o imports
          /\ detections' = Append(detections,
                                  [repo_id |-> repo_id,
                                   returned |-> Len(created),
                                   first |-> Len(rels) + 1,
                                   last |-> Len(rels) + Len(created) + Len(imports)])
    /\ UNCHANGED <<entities, files, matrixQueries, graphQueries>>
    /\ UNCHANGED otherThanRel

InitRel == RelInit /\ PipeIdle /\ ParseIdle /\ BatchIdle /\ CycleIdle /\ MatchIdle /\ RunsIdle /\ AstIdle

NextRel == \E repo_id \in Repos : DetectAllRelationships(repo_id)

SpecRel == InitRel /\ [][NextRel]_vars

\* C13: every relationship with a target that a call for repo_id created has
\* its source entity and its target entity among the entities of repo_id.
C13_EndpointsInRepository ==
    \A d \in 1..Len(detections) :
        \A k \in detections[d].first..detections[d].last :
            rels[k].target_entity_id # 0 =>
                /\ entities[rels[k].source_entity_id].repo_id = detections[d].repo_id
                /\ entities[rels[k].target_entity_id].repo_id = detections[d].repo_id

\* C13 witness: a call for repository 1 created a calls relationship from an
\* entity of repository 1 to the entity named g of repository 1, while
\* repository 2 holds an entity named g as well.
C13_Witness ==
    /\ detections # <<>>
    /\ detections[1].repo_id = 1
    /\ \E k \in detections[1].first..detections[1].last :
          /\ rels[k].relationship_type = "calls"
          /\ entities[rels[k].target_entity_id].name = <<"g">>
          /\ entities[rels[k].target_entity_id].repo_id = 1
    /\ \E e \in 1..Len(entities) :
          entities[e].repo_id = 2 /\ entities[e].name = <<"g">>

----------------------------------------------------------------------------
\* Requests and runs of one repository: POST /api/repos/analyze queues a
\* background task per request; the tasks run on the event loop and
\* interleave at their awaits.

\* Bound on the analyze requests for the repository.
MaxRequests == 3

Active(r) == runs[r].at \in {"try", "finalize", "except", "finally"}

\* A committed write of the status column.
WriteStatus(value) ==
    /\ dbStatus' = value
    /\ transitions' = IF dbStatus \in {"none", value}
                        THEN transitions
                        ELSE transitions \cup {<<dbStatus, value>>}

\* repos.py 61-97: the record is created or re-queued as PENDING whatever
\* its status is, and a background task is added.
PostAnalyze ==
    /\ Len(runs) < MaxRequests
    /\ WriteStatus(PENDING)
    /\ runs' = Append(runs, [at |-> "queued", exc |-> "none"])
    /\ UNCHANGED otherThanRuns

\* analysis_service.py 46-54 in task r: load the record, commit IN_PROGRESS.
RunStart(r) ==
    /\ runs[r].at = "queued"
    /\ WriteStatus(IN_PROGRESS)
    /\ runs' = [runs EXCEPT ![r].at = "try"]
    /\ UNCHANGED otherThanRuns

\* analysis_service.py 56-75 in task r: the phases; their commits write the
\* status message only.
RunPhases(r) ==
    /\ runs[r].at = "try"
    /\ runs' = [runs EXCEPT ![r].at = "finalize"]
    /\ UNCHANGED <<dbStatus, transitions>>
    /\ UNCHANGED otherThanRuns

\* analysis_service.py 77-80 in task r: commit COMPLETED.
RunFinalize(r) ==
    /\ runs[r].at = "finalize"
    /\ WriteStatus(COMPLETED)
    /\ runs' = [runs EXCEPT ![r].at = "finally"]
    /\ UNCHANGED otherThanRuns

\* An awaited call inside the try block of task r raises k.
RunRaise(r, k) ==
    /\ runs[r].at \in {"try", "finalize"}
    /\ runs' = [runs EXCEPT ![r] = [at |-> "except", exc |-> k]]
    /\ UNCHANGED <<dbStatus, transitions>>
    /\ UNCHANGED otherThanRuns

\* analysis_service.py 82-87 in task r.
RunExcept(r) ==
    /\ runs[r].at = "except"
    /\ IF IsException(runs[r].exc)
         THEN WriteStatus(FAILED)
         ELSE UNCHANGED <<dbStatus, transitions>>
    /\ runs' = [runs EXCEPT ![r].at = "finally"]
    /\ UNCHANGED otherThanRuns

\* analysis_service.py 88-90 in task r: cleanup, and the task ends.
RunCleanup(r) ==
    /\ runs[r].at = "finally"
    /\ runs' = [runs EXCEPT ![r].at = "done"]
    /\ UNCHANGED <<dbStatus, transitions>>
    /\ UNCHANGED otherThanRuns

RunsInit ==
    /\ dbStatus \in {"none", COMPLETED, FAILED}
    /\ runs = <<>>
    /\ transitions = {}

InitRuns == RunsInit /\ PipeIdle /\ ParseIdle /\ BatchIdle /\ CycleIdle /\ MatchIdle /\ RelIdle /\ AstIdle

NextRuns ==
    \/ PostAnalyze
    \/ \E r \in 1..Len(runs) : RunStart(r)
    \/ \E r \in 1..Len(runs) : RunPhases(r)
    \/ \E r \in 1..Len(runs) : RunFinalize(r)
    \/ \E r \in 1..Len(runs) : \E k \in ExcKinds : RunRaise(r, k)
    \/ \E r \in 1..Len(runs) : RunExcept(r)
    \/ \E r \in 1..Len(runs) : RunCleanup(r)

SpecRuns == InitRuns /\ [][NextRuns]_vars

AllowedTransitions ==
    {<<PENDING, IN_PROGRESS>>, <<IN_PROGRESS, COMPLETED>>, <<IN_PROGRESS, FAILED>>,
     <<COMPLETED, PENDING>>, <<FAILED, PENDING>>}

\* C14: over any interleaving of analyze requests and runs the committed
\* status changes only from PENDING to IN_PROGRESS, from IN_PROGRESS to
\* COMPLETED or FAILED, and from COMPLETED or FAILED to PENDING.
C14_OnlyStateMachineTransitions == transitions \subseteq AllowedTransitions

\* C15: at most one run of the repository is active at any time.
C15_AtMostOneActiveRun == Cardinality({r \in 1..Len(runs) : Active(r)}) <= 1

----------------------------------------------------------------------------
\* Phase order and not-found calls of the pipeline (specification Spec)

\* The phases of this run, in order.
RunOrder ==
    IF relEnabled THEN <<"scan", "parse", "relate", "embed">>
                  ELSE <<"scan", "parse", "embed">>

\* The phases whose begin is in the event log, in order of beginning.
RECURSIVE Begun(_)
Begun(log) ==
    IF log = <<>> THEN <<>>
    ELSE IF Head(log)[1] = "begin" THEN <<Head(log)[2]>> \o Begun(Tail(log))
    ELSE Begun(Tail(log))

\* C16: the phases begin in the order scan, parse, relate (only when
\* enabled), embed; a phase begins only when the output of every phase before
\* it is committed in full; COMPLETED is committed only after the embed
\* output; and after a failure in a phase the output of the phases before it
\* is still committed in full.
C16_PhasesInOrderAndCommitted ==
    LET begun == Begun(eventLog)
    IN /\ Len(begun) <= Len(RunOrder)
       /\ begun = SubSeq(RunOrder, 1, Len(begun))
       /\ \A i \in 1..Len(begun) : \A j \in 1..(i - 1) : store[begun[j]] = "full"
       /\ \A i \in 2..Len(eventLog) :
             eventLog[i][1] = "begin" =>
                 eventLog[i - 1] = <<"commit", RunOrder[Len(Begun(SubSeq(eventLog, 1, i))) - 1]>>
       /\ ~relEnabled => store["relate"] = "none"
       /\ COMPLETED \in Range(statusLog) =>
             /\ begun = RunOrder
             /\ \A i \in 1..Len(RunOrder) : store[RunOrder[i]] = "full"
             /\ \E i \in 2..Len(eventLog) :
                   eventLog[i] = <<"finalize", "">> /\ eventLog[i - 1] = <<"commit", "embed">>
       /\ (exc # "none" /\ begun # <<>>) =>
             \A j \in 1..(Len(begun) - 1) : store[begun[j]] = "full"

\* C16 witness: with relationships enabled the embed phase failed after some
\* of its rows were written; the run ended FAILED with the output of scan,
\* parse and relate committed in full.
C16_Witness ==
    /\ pc.at = "done" /\ pc.phase = "embed"
    /\ relEnabled
    /\ repoStatus = FAILED
    /\ store = [p \in PhaseNames |-> IF p = "embed" THEN "partial" ELSE "full"]

\* C17: a call of analyze_repository or get_analysis_status for a repository
\* id that has no record raises ValueError, once, and changes nothing: no
\* status or message write, no phase event, no cleanup, no stored row.
C17_NotFoundRaisesAndChangesNothing ==
    [][errors' # errors =>
          /\ repoStatus = "none"
          /\ Len(errors') = Len(errors) + 1
          /\ errors'[Len(errors')].raised = "ValueError"
          /\ UNCHANGED <<repoStatus, repoMessage, pc, exc, outcome, cleanups,
                         statusLog, eventLog, seen, store, pending>>
          /\ UNCHANGED <<entities, files, rels>>]_vars

\* C17 witness: both calls were made for the missing id and both raised.
C17_Witness ==
    /\ repoStatus = "none"
    /\ Len(errors) = 2
    /\ errors[1].call = "analyze_repository"
    /\ errors[2].call = "get_analysis_status"
    /\ cleanups = 0 /\ eventLog = <<>> /\ statusLog = <<>>

\* -------------------------------------------------------------------------
\* Source parsing: ASTParser (ast_parser.py).
\* -------------------------------------------------------------------------

\* ast_parser.py 36
SUPPORTED_LANGUAGES == {"python", "javascript", "typescript"}

KW_FUNCTION == <<"f", "u", "n", "c", "t", "i", "o", "n">>

KW_ASYNC == <<"a", "s", "y", "n", "c">>

KW_CONST == <<"c", "o", "n", "s", "t">>

KW_LET == <<"l", "e", "t">>

KW_VAR == <<"v", "a", "r">>

\* The position after literal lit if it stands at position i of s, else 0.
LitAt(s, i, lit) ==
    IF i >= 1 /\ i + Len(lit) - 1 <= Len(s) /\ SubSeq(s, i, i + Len(lit) - 1) = lit
    THEN i + Len(lit)
    ELSE 0

\* The group of  \s+(\w+)  matched at position i of s (empty if no match).
WordAfterSpace(s, i) ==
    LET j == SkipWhile(s, i, WS)
        k == SkipWhile(s, j, IdentChars)
    IN IF j > i /\ k > j THEN SubSeq(s, j, k - 1) ELSE <<>>

\* re.match(r'^\s*<kw>\s+(\w+)', line): the group (empty if no match).
DeclMatch(line, kw) ==
    LET a == LitAt(line, SkipWhile(line, 1, WS), kw)
    IN IF a = 0 THEN <<>> ELSE WordAfterSpace(line, a)

\* re.search(r'(?:async\s+)?function\s+(\w+)', line) from position p on: the
\* group of the leftmost match (empty if none).  The optional prefix moves
\* the start of a match, never its group.
RECURSIVE FunctionSearch(_, _)
FunctionSearch(line, p) ==
    IF p > Len(line) THEN <<>>
    ELSE LET a == LitAt(line, p, KW_FUNCTION)
             w == IF a = 0 THEN <<>> ELSE WordAfterSpace(line, a)
         IN IF w # <<>> THEN w ELSE FunctionSearch(line, p + 1)

\* \s*=\s*(?:async\s+)?\(  matched at position j of s.
AssignsCallable(s, j) ==
    LET eq == LitAt(s, SkipWhile(s, j, WS), <<"=">>)
        r  == IF eq = 0 THEN 0 ELSE SkipWhile(s, eq, WS)
        as == IF eq = 0 THEN 0 ELSE LitAt(s, r, KW_ASYNC)
        r2 == IF as = 0 THEN 0 ELSE SkipWhile(s, as, WS)
    IN /\ eq # 0
       /\ \/ LitAt(s, r, OPEN) # 0
          \/ as # 0 /\ r2 > as /\ LitAt(s, r2, OPEN) # 0

\* The position after const, let or var at position p of s, else 0.
DeclKeywordAt(s, p) ==
    IF LitAt(s, p, KW_CONST) # 0 THEN LitAt(s, p, KW_CONST)
    ELSE IF LitAt(s, p, KW_LET) # 0 THEN LitAt(s, p, KW_LET)
    ELSE LitAt(s, p, KW_VAR)

\* re.search(r'(?:const|let|var)\s+(\w+)\s*=\s*(?:async\s+)?\(', line) from
\* position p on: the group of the leftmost match (empty if none).
RECURSIVE ArrowSearch(_, _)
ArrowSearch(line, p) ==
    IF p > Len(line) THEN <<>>
    ELSE LET a == DeclKeywordAt(line, p)
             w == IF a = 0 THEN <<>> ELSE WordAfterSpace(line, a)
             j == SkipWhile(line, SkipWhile(line, a, WS), IdentChars)
         IN IF w # <<>> /\ AssignsCallable(line, j) THEN w
            ELSE ArrowSearch(line, p + 1)

\* ast_parser.py 108-114 and the like: the record of a one-line entity.
LineEntity(name, type, i, line) ==
    [name |-> name, type |-> type, start_line |-> i, end_line |-> i,
     code |-> Strip(line)]

\* ast_parser.py 107-122: the body of the python loop for line i.
PythonLineEntities(line, i) ==
    IF DeclMatch(line, KW_DEF) # <<>>
      THEN <<LineEntity(DeclMatch(line, KW_DEF), "function", i, line)>>
    ELSE IF DeclMatch(line, KW_CLASS) # <<>>
      THEN <<LineEntity(DeclMatch(line, KW_CLASS), "class", i, line)>>
    ELSE <<>>

\* ast_parser.py 125-145: the body of the javascript loop for line i; the
\* first pattern that matches gives the function, then the class test runs.
JsLineEntities(line, i) ==
    (IF FunctionSearch(line, 1) # <<>>
       THEN <<LineEntity(FunctionSearch(line, 1), "function", i, line)>>
     ELSE IF ArrowSearch(line, 1) # <<>>
       THEN <<LineEntity(ArrowSearch(line, 1), "function", i, line)>>
     ELSE <<>>)
    \o (IF DeclMatch(line, KW_CLASS) # <<>>
          THEN <<LineEntity(DeclMatch(line, KW_CLASS), "class", i, line)>>
        ELSE <<>>)

RECURSIVE FallbackLoop(_, _, _)
FallbackLoop(lines, i, lang) ==
    IF i > Len(lines) THEN <<>>
    ELSE (IF lang = "python" THEN PythonLineEntities(lines[i], i)
          ELSE JsLineEntities(lines[i], i))
         \o FallbackLoop(lines, i + 1, lang)

\* ast_parser.py 101-147: _fallback_extract(content, language)
FallbackExtract(text, lang) == FallbackLoop(SplitLines(text), 1, lang)

\* A child of the root node of a tree: its type, the text of its name field
\* (empty if it has none) and its first and last row, counted from 0.
Node(type, name, first, last) ==
    [type |-> type, name |-> name, start_row |-> first, end_row |-> last]

\* ast_parser.py 57-63: the record of a node; a top-level node spans whole
\* lines, so that content[start_byte:end_byte] is those lines.
NodeEntity(node, type, text) ==
    [name |-> node.name, type |-> type,
     start_line |-> node.start_row + 1, end_line |-> node.end_row + 1,
     code |-> JoinLines(SubSeq(SplitLines(text), node.start_row + 1,
                               node.end_row + 1))]

\* ast_parser.py 51-74: _extract_python_entities(node, content)
RECURSIVE ExtractPythonEntities(_, _)
ExtractPythonEntities(children, text) ==
    IF children = <<>> THEN <<>>
    ELSE LET child == Head(children)
         IN (IF child.type = "function_definition" /\ child.name # <<>>
               THEN <<NodeEntity(child, "function", text)>>
             ELSE IF child.type = "class_definition" /\ child.name # <<>>
               THEN <<NodeEntity(child, "class", text)>>
             ELSE <<>>)
            \o ExtractPythonEntities(Tail(children), text)

\* ast_parser.py 76-99: _extract_js_entities(node, content)
RECURSIVE ExtractJsEntities(_, _)
ExtractJsEntities(children, text) ==
    IF children = <<>> THEN <<>>
    ELSE LET child == Head(children)
         IN (IF child.type \in {"function_declaration", "method_definition"}
                  /\ child.name # <<>>
               THEN <<NodeEntity(child, "function", text)>>
             ELSE IF child.type = "class_declaration" /\ child.name # <<>>
               THEN <<NodeEntity(child, "class", text)>>
             ELSE <<>>)
            \o ExtractJsEntities(Tail(children), text)

\* ast_parser.py 20-33: the fields __init__ leaves behind.  failAt numbers the
\* grammar whose parser could not be built (0: none, 1: python, 2: javascript).
Constructed(isAvailable, failAt) ==
    IF ~isAvailable THEN [parsers |-> {}, tree_sitter_ok |-> FALSE]
    ELSE IF failAt = 1 THEN [parsers |-> {}, tree_sitter_ok |-> FALSE]
    ELSE IF failAt = 2 THEN [parsers |-> {"python"}, tree_sitter_ok |-> FALSE]
    ELSE [parsers |-> {"python", "javascript", "typescript"},
          tree_sitter_ok |-> TRUE]

\* What the try block of lines 40-44 does: it throws, or it returns the
\* entities read off the tree.
Threw(kind) == [threw |-> TRUE, kind |-> kind, children |-> <<>>]

Parsed(children) == [threw |-> FALSE, kind |-> "none", children |-> children]

\* parse_file with no except clause: what the precise attempt throws leaves
\* the method.
ParseFile_Propagate(ok, langs, text, lang, attempt) ==
    IF lang \notin SUPPORTED_LANGUAGES
      THEN [value |-> <<>>, raised |-> "none", precise |-> "skipped"]
    ELSE IF ok /\ lang \in langs /\ ~attempt.threw
      THEN [value |-> IF lang = "python"
                        THEN ExtractPythonEntities(attempt.children, text)
                        ELSE ExtractJsEntities(attempt.children, text),
            raised |-> "none", precise |-> "returned"]
    ELSE IF ok /\ lang \in langs
      THEN [value |-> <<>>, raised |-> attempt.kind, precise |-> "threw"]
    ELSE [value |-> FallbackExtract(text, lang), raised |-> "none",
          precise |-> "skipped"]

\* ast_parser.py 35-49: parse_file(content, language) on a parser with fields
\* tree_sitter_ok = ok and parsers = langs, when the precise attempt would do
\* what attempt says.
ParseFile(ok, langs, text, lang, attempt) ==
    IF lang \notin SUPPORTED_LANGUAGES
      THEN [value |-> <<>>, raised |-> "none", precise |-> "skipped"]
    ELSE IF ok /\ lang \in langs /\ ~attempt.threw
      THEN [value |-> IF lang = "python"
                        THEN ExtractPythonEntities(attempt.children, text)
                        ELSE ExtractJsEntities(attempt.children, text),
            raised |-> "none", precise |-> "returned"]
    ELSE IF ok /\ lang \in langs /\ ~IsException(attempt.kind)
      THEN [value |-> <<>>, raised |-> attempt.kind, precise |-> "threw"]
    ELSE [value |-> FallbackExtract(text, lang), raised |-> "none",
          precise |-> IF ok /\ lang \in langs THEN "threw" ELSE "skipped"]

\* "def f():", "    return g()", "class A(B):"
PyModule ==
    JoinLines(<<<<"d", "e", "f", " ", "f", "(", ")", ":">>,
                <<" ", " ", " ", " ", "r", "e", "t", "u", "r", "n", " ", "g", "(", ")">>,
                <<"c", "l", "a", "s", "s", " ", "A", "(", "B", ")", ":">>>>)

\* indented declarations, and a line that only mentions def
PyNested ==
    JoinLines(<<<<" ", " ", "c", "l", "a", "s", "s", " ", " ", "A", "9", ":">>,
                <<" ", " ", "d", "e", "f", " ", " ", "m", "_", "1", "(", "s", "e", "l", "f", ")", ":">>,
                <<"x", " ", "=", " ", "d", "e", "f">>>>)

\* python text without a declaration at the start of a line
PyNone ==
    JoinLines(<<<<"x", " ", "=", " ", "1">>,
                <<"#", " ", "d", "e", "f", " ", "f">>,
                <<"d", "e", "f", "i", "n", "e", "(", ")">>>>)

\* a function declaration, an arrow function and a class
JsModule ==
    JoinLines(<<<<"a", "s", "y", "n", "c", " ", "f", "u", "n", "c", "t", "i", "o", "n", " ", "f", "(", ")", " ", "{">>,
                <<"c", "o", "n", "s", "t", " ", "g", " ", "=", " ", "a", "s", "y", "n", "c", " ", "(", "x", ")", " ", "=", ">", " ", "x">>,
                <<"c", "l", "a", "s", "s", " ", "B", " ", "e", "x", "t", "e", "n", "d", "s", " ", "A", " ", "{">>>>)

\* a class line that also holds a function; an arrow function; a plain variable
JsMixed ==
    JoinLines(<<<<"c", "l", "a", "s", "s", " ", "Z", " ", "{", " ", "f", "u", "n", "c", "t", "i", "o", "n", " ", "k">>,
                <<" ", " ", "l", "e", "t", " ", "h", "=", "(">>,
                <<"v", "a", "r", " ", "n", " ", "=", " ", "1">>>>)

\* javascript text on which neither pattern matches
JsNone ==
    JoinLines(<<<<"f", "u", "n", "c", "t", "i", "o", "n", "a", "l", " ", "(", ")">>,
                <<"c", "o", "n", "s", "t", " ", " ", "=", " ", "(">>,
                <<"l", "e", "t", " ", "a", " ", "=", " ", "b", "(">>>>)

FileTexts == {<<>>, PyModule, PyNested, PyNone, JsModule, JsMixed, JsNone}

\* The languages a caller may pass: the three handled ones, and names that
\* are not handled.
Languages == {"python", "javascript", "typescript", "ruby", "Python"}

\* Trees tree-sitter may return for a three-line text of the language.
Trees(lang) ==
    IF lang = "python"
      THEN {<<>>,
            <<Node("function_definition", <<"f">>, 0, 1),
              Node("class_definition", <<"A">>, 2, 2)>>,
            <<Node("expression_statement", <<>>, 0, 0),
              Node("ERROR", <<>>, 1, 2)>>}
      ELSE {<<>>,
            <<Node("function_declaration", <<"f">>, 0, 0),
              Node("lexical_declaration", <<>>, 1, 1),
              Node("class_declaration", <<"B">>, 2, 2)>>,
            <<Node("ERROR", <<>>, 0, 2)>>}

\* What the precise attempt can do on a text: throw (something "except
\* Exception" matches: parse_file has no await, so nothing else is thrown
\* into it), or return a tree whose rows are rows of the text.
Attempts(text, lang) ==
    {Threw("Exception")}
    \cup {Parsed(t) : t \in {t \in Trees(lang) :
                 \A k \in 1..Len(t) : t[k].end_row < Len(SplitLines(text))}}

AstInit ==
    /\ available \in BOOLEAN
    /\ parsers = {}
    /\ tree_sitter_ok = FALSE
    /\ content \in FileTexts
    /\ language \in Languages
    /\ precise = "skipped"
    /\ astResult = <<>>
    /\ astRaised = "none"
    /\ astPc = "new"

\* ASTParser()
Construct ==
    /\ astPc = "new"
    /\ \E failAt \in 0..2 :
         /\ parsers' = Constructed(available, failAt).parsers
         /\ tree_sitter_ok' = Constructed(available, failAt).tree_sitter_ok
    /\ astPc' = "ready"
    /\ UNCHANGED <<available, content, language, precise, astResult, astRaised>>
    /\ UNCHANGED otherThanAst

\* parser.parse_file(content, language)
ParseFileCall ==
    /\ astPc = "ready"
    /\ \E attempt \in Attempts(content, language) :
         LET r == ParseFile(tree_sitter_ok, parsers, content, language, attempt)
         IN /\ astResult' = r.value
            /\ astRaised' = r.raised
            /\ precise' = r.precise
    /\ astPc' = "done"
    /\ UNCHANGED <<available, parsers, tree_sitter_ok, content, language>>
    /\ UNCHANGED otherThanAst

InitAst == AstInit /\ PipeIdle /\ ParseIdle /\ BatchIdle /\ CycleIdle /\ MatchIdle /\ RelIdle /\ RunsIdle

NextAst ==
    \/ Construct
    \/ ParseFileCall

SpecAst == InitAst /\ [][NextAst]_vars

\* C20: parse_file raises nothing; for a language outside python, javascript,
\* typescript it returns the empty list; and when the parser has no working
\* tree-sitter, or the precise attempt threw, it returns exactly what the
\* regex fallback extracts from the text.
C20_NeverRaisesAndFallsBack ==
    astPc = "done" =>
        /\ astRaised = "none"
        /\ language \notin SUPPORTED_LANGUAGES => astResult = <<>>
        /\ (language \in SUPPORTED_LANGUAGES
              /\ (~tree_sitter_ok \/ language \notin parsers \/ precise = "threw"))
           => astResult = FallbackExtract(content, language)

\* C20 witness: tree-sitter was set up, the precise attempt on a javascript
\* text threw, and the three regex entities of the text came back.
C20_Witness ==
    /\ astPc = "done"
    /\ tree_sitter_ok /\ language = "javascript" /\ content = JsModule
    /\ precise = "threw"
    /\ astRaised = "none"
    /\ Len(astResult) = 3
    /\ astResult[2].name = <<"g">> /\ astResult[2].type = "function"
    /\ astResult[3].name = <<"B">> /\ astResult[3].type = "class"

----------------------------------------------------------------------------
\* Properties of the rows one detect_all_relationships call creates.

\* The rows of type type with source e that call d created.
RowsOf(d, e, type) ==
    {k \in detections[d].first..detections[d].last :
        rels[k].relationship_type = type /\ rels[k].source_entity_id = e}

\* The entity registered under name n for repository repo_id: the last row
\* of that name.
Registered(repo_id, n) ==
    CHOOSE i \in 1..Len(entities) :
        /\ entities[i].repo_id = repo_id /\ entities[i].name = n
        /\ \A j \in 1..Len(entities) :
              entities[j].repo_id = repo_id /\ entities[j].name = n => j <= i

\* The names of the entities of repository repo_id.
KnownNames(repo_id) ==
    {entities[i].name : i \in {i \in 1..Len(entities) : entities[i].repo_id = repo_id}}

\* The names entity e calls: known, captured before a "(" by one of the two
\* patterns, no keyword, not the name of e.
CalledBy(e) ==
    {n \in KnownNames(entities[e].repo_id) :
        /\ n \in ExtractFunctionCalls(entities[e].code_snippet)
        /\ n \notin Keywords
        /\ n # entities[e].name}

\* C21: a call creates, for every entity with a slice and every known name
\* the slice calls (no keyword, not the entity's own name), exactly one calls
\* row to the entity registered under the name, and no other calls row; no
\* calls row has its source as target.
C21_CallsEdges ==
    \A d \in 1..Len(detections) :
        /\ \A e \in 1..Len(entities) :
              (entities[e].repo_id = detections[d].repo_id
                 /\ entities[e].code_snippet # <<>>) =>
                 /\ \A n \in CalledBy(e) :
                       Cardinality({k \in RowsOf(d, e, "calls") :
                           rels[k].target_entity_id
                               = Registered(detections[d].repo_id, n)}) = 1
                 /\ \A k \in RowsOf(d, e, "calls") :
                       \E n \in CalledBy(e) :
                           rels[k].target_entity_id
                               = Registered(detections[d].repo_id, n)
        /\ \A k \in detections[d].first..detections[d].last :
              rels[k].relationship_type = "calls" =>
                 /\ entities[rels[k].source_entity_id].repo_id = detections[d].repo_id
                 /\ entities[rels[k].source_entity_id].code_snippet # <<>>
                 /\ rels[k].source_entity_id # rels[k].target_entity_id

\* C21 witness: a function new that calls f and a function f whose slice
\* holds f and new before a "(", in one repository; the call created the row
\* new -> f and no calls row from f.
C21_Witness ==
    /\ Len(detections) = 1
    /\ detections[1].repo_id = 1
    /\ entities = <<MkEntity(1, KW_NEW, "function", <<"f">>),
                    MkEntity(1, <<"f">>, "function", KW_NEW)>>
    /\ {KW_NEW, <<"f">>} \subseteq {t \in Range(Tokens(entities[2].code_snippet)) : TRUE}
    /\ RowsOf(1, 2, "calls") = {}
    /\ {rels[k].target_entity_id : k \in RowsOf(1, 1, "calls")} = {2}

\* C21 second case: a function f that calls g, with two entities named g in
\* its repository, has exactly one calls row, to the later g.
C21_WitnessRegistered ==
    /\ Len(detections) = 1
    /\ Len(entities) = 3
    /\ \A i \in 1..3 : entities[i].repo_id = detections[1].repo_id
    /\ entities[1].code_snippet = FunctionCode(<<"f">>, <<"g">>)
    /\ entities[2].name = <<"g">> /\ entities[3].name = <<"g">>
    /\ {rels[k].target_entity_id : k \in RowsOf(1, 1, "calls")} = {3}

\* The paths of the files of repository repo_id.
PathsOf(repo_id) ==
    {files[f].path : f \in {f \in 1..Len(files) : files[f].repo = repo_id}}

\* C22: a relationship has no target entity exactly if its type is imports;
\* the metadata of an imports relationship names the file of its source
\* entity, a file of the source entity's repository that the import string
\* resolves to, and an import string of the source entity's slice.
C22_NullTargetIffImports ==
    \A k \in 1..Len(rels) :
        LET source == entities[rels[k].source_entity_id]
            metadata == rels[k].rel_metadata
        IN /\ rels[k].target_entity_id = 0 <=> rels[k].relationship_type = "imports"
           /\ rels[k].relationship_type = "imports" =>
                 /\ metadata.source_file = files[source.file_id].path
                 /\ metadata.target_file \in PathsOf(source.repo_id)
                 /\ metadata.import_name \in ExtractImports(source.code_snippet)
                 /\ IsImportMatch(metadata.import_name, metadata.target_file)

\* C22 witness: one call for repository 2 created an imports row and a calls
\* row for the same entity; the row names utils.py, the file of repository
\* 2, as source and as target.
C22_Witness ==
    /\ Len(detections) = 1
    /\ detections[1].repo_id = 2
    /\ \E k \in 1..Len(rels), j \in 1..Len(rels) :
          /\ rels[k].relationship_type = "imports"
          /\ rels[k].target_entity_id = 0
          /\ rels[k].rel_metadata.import_name = Utils
          /\ rels[k].rel_metadata.target_file \in PathsOf(2)
          /\ rels[j].relationship_type = "calls"
          /\ rels[j].target_entity_id # 0
          /\ rels[j].source_entity_id = rels[k].source_entity_id

\* The files of repository repo_id that import string s resolves to, as
\* positions of the files table.
MatchingFiles(repo_id, s) ==
    {f \in 1..Len(files) : files[f].repo = repo_id /\ IsImportMatch(s, files[f].path)}

\* C23: for an entity and an import string of its slice a call creates at
\* most one imports row (one if some file of the repository matches), and
\* the row names the first matching file in the order of the files table.
C23_FirstMatchingFileWins ==
    \A d \in 1..Len(detections) :
        \A e \in 1..Len(entities) :
            entities[e].repo_id = detections[d].repo_id =>
                \A s \in ExtractImports(entities[e].code_snippet) :
                    LET rows == {k \in RowsOf(d, e, "imports") :
                                    rels[k].rel_metadata.import_name = s}
                        matching == MatchingFiles(detections[d].repo_id, s)
                    IN /\ Cardinality(rows) <= 1
                       /\ rows # {} <=> matching # {}
                       /\ \A k \in rows :
                             \E f \in matching :
                                 /\ rels[k].rel_metadata.target_file = files[f].path
                                 /\ \A j \in matching : f <= j

\* C23 witness: in repository 1 both utils.py and utils/helpers.py match the
\* import utils; the only row of the importing entity names utils.py.
C23_Witness ==
    /\ Len(detections) = 1
    /\ detections[1].repo_id = 1
    /\ Cardinality(MatchingFiles(1, Utils)) = 2
    /\ \E e \in 1..Len(entities) :
          /\ Utils \in ExtractImports(entities[e].code_snippet)
          /\ \E k \in RowsOf(1, e, "imports") :
                /\ rels[k].rel_metadata.import_name = Utils
                /\ rels[k].rel_metadata.target_file = files[1].path
          /\ \A k \in RowsOf(1, e, "imports") :
                rels[k].rel_metadata.target_file # files[2].path

----------------------------------------------------------------------------
\* Graph queries: get_call_graph and get_dependency_matrix read the stored
\* relationships.

\* Bound on the queries made.
MaxQueries == 2

\* relationship_detector.py 322-325: the zero matrix over the paths of the
\* files selected by repo_id.
ZeroMatrix(fls, repo_id) ==
    LET paths == {fls[f].path : f \in {f \in 1..Len(fls) : fls[f].repo = repo_id}}
    IN [s \in paths |-> [t \in paths |-> 0]]

\* relationship_detector.py 336-342 with the entry set to 1 in place of the
\* increment.
RECURSIVE Populate_Flag(_, _, _)
Populate_Flag(m, relations, k) ==
    IF k > Len(relations) THEN m
    ELSE LET r == relations[k]
             source_file == r.rel_metadata.source_file
             target_file == r.rel_metadata.target_file
         IN Populate_Flag(IF /\ r.relationship_type = "imports"
                             /\ source_file \in DOMAIN m
                             /\ target_file \in DOMAIN m[source_file]
                            THEN [m EXCEPT ![source_file][target_file] = 1]
                            ELSE m,
                          relations, k + 1)

\* relationship_detector.py 328-342: the loop over the imports relationships
\* (selected by type only), from row k on.  A missing metadata entry is the
\* empty string here, which is no path.
RECURSIVE Populate(_, _, _)
Populate(m, relations, k) ==
    IF k > Len(relations) THEN m
    ELSE LET r == relations[k]
             source_file == r.rel_metadata.source_file
             target_file == r.rel_metadata.target_file
         IN Populate(IF /\ r.relationship_type = "imports"
                        /\ source_file \in DOMAIN m
                        /\ target_file \in DOMAIN m[source_file]
                       THEN [m EXCEPT ![source_file][target_file] = @ + 1]
                       ELSE m,
                     relations, k + 1)

\* relationship_detector.py 310-344: get_dependency_matrix(repo_id)
DependencyMatrix(fls, relations, repo_id) ==
    Populate(ZeroMatrix(fls, repo_id), relations, 1)

\* relationship_detector.py 257-308: get_call_graph(repo_id); the queries of
\* lines 268-273 and 281-284 do not use repo_id.  Nodes come in id order.
CallGraph(ents, relations, repo_id) ==
    LET relationships == SelectSeq(relations, LAMBDA r : r.relationship_type = "calls")
        entity_ids == {relationships[k].source_entity_id : k \in 1..Len(relationships)}
                        \cup {relationships[k].target_entity_id : k \in 1..Len(relationships)}
        found == SelectSeq([i \in 1..Len(ents) |-> i], LAMBDA i : i \in entity_ids)
    IN [nodes |-> [n \in 1..Len(found) |->
                     [id |-> found[n],
                      name |-> ents[found[n]].name,
                      type |-> ents[found[n]].type,
                      in_degree |-> Cardinality({k \in 1..Len(relationships) :
                                       relationships[k].target_entity_id = found[n]}),
                      out_degree |-> Cardinality({k \in 1..Len(relationships) :
                                       relationships[k].source_entity_id = found[n]})]],
        edges |-> [k \in 1..Len(relationships) |->
                     [source |-> relationships[k].source_entity_id,
                      target |-> relationships[k].target_entity_id,
                      type |-> "calls"]]]

GetDependencyMatrix(repo_id) ==
    /\ Len(matrixQueries) + Len(graphQueries) < MaxQueries
    /\ matrixQueries' = Append(matrixQueries,
                               [repo_id |-> repo_id, stored |-> Len(rels),
                                value |-> DependencyMatrix(files, rels, repo_id)])
    /\ UNCHANGED <<entities, files, rels, detections, graphQueries>>
    /\ UNCHANGED otherThanRel

GetCallGraph(repo_id) ==
    /\ Len(matrixQueries) + Len(graphQueries) < MaxQueries
    /\ graphQueries' = Append(graphQueries,
                              [repo_id |-> repo_id, stored |-> Len(rels),
                               value |-> CallGraph(entities, rels, repo_id)])
    /\ UNCHANGED <<entities, files, rels, detections, matrixQueries>>
    /\ UNCHANGED otherThanRel

\* An imports row stored without a target file in its metadata.
HalfNamedImport ==
    Rel(1, 0, "imports",
        [source_file |-> SampleFiles[1].path, target_file |-> <<>>,
         import_name |-> Utils])

\* Tables of one or two functions or importing functions, and a store that
\* is empty or holds the row without a target file.
GraphInit ==
    /\ \E n \in 1..2 :
          entities \in [1..n -> {MkEntity(r, name, kind, callee) :
                                    r \in Repos, name \in EntityNames,
                                    kind \in {"function", "importer"},
                                    callee \in EntityNames}]
    /\ files = SampleFiles
    /\ rels \in {<<>>, <<HalfNamedImport>>}
    /\ detections = <<>>
    /\ matrixQueries = <<>>
    /\ graphQueries = <<>>

InitGraph == GraphInit /\ PipeIdle /\ ParseIdle /\ BatchIdle /\ CycleIdle /\ MatchIdle /\ RunsIdle /\ AstIdle

NextGraph ==
    \/ \E repo_id \in Repos : DetectAllRelationships(repo_id)
    \/ \E repo_id \in Repos : GetDependencyMatrix(repo_id)
    \/ \E repo_id \in Repos : GetCallGraph(repo_id)

SpecGraph == InitGraph /\ [][NextGraph]_vars

\* The imports rows among the first n stored rows whose metadata names source
\* file s and target file t.
ImportsNaming(n, s, t) ==
    {k \in 1..n : /\ rels[k].relationship_type = "imports"
                  /\ rels[k].rel_metadata.source_file = s
                  /\ rels[k].rel_metadata.target_file = t}

\* C24: the matrix get_dependency_matrix returns has a row and a column for
\* every file path of the repository, and entry [s][t] is the number of
\* stored imports relationships whose metadata names s and t; a relationship
\* whose metadata lacks one of the two files counts nowhere.
C24_MatrixCountsImports ==
    \A q \in 1..Len(matrixQueries) :
        LET m == matrixQueries[q].value
            paths == PathsOf(matrixQueries[q].repo_id)
        IN /\ DOMAIN m = paths
           /\ \A s \in paths :
                 /\ DOMAIN m[s] = paths
                 /\ \A t \in paths :
                       /\ m[s][t] >= 0
                       /\ m[s][t] = Cardinality(
                              ImportsNaming(matrixQueries[q].stored, s, t))

\* C24 witness: repository 1 was analysed twice and its matrix holds a 2
\* from utils.py to utils.py, while the store holds the import without a
\* target file, which no entry of the row of utils.py counts.
C24_Witness ==
    /\ rels # <<>> /\ rels[1] = HalfNamedImport
    /\ \E q \in 1..Len(matrixQueries) :
          /\ matrixQueries[q].repo_id = 1
          /\ matrixQueries[q].value[SampleFiles[1].path][SampleFiles[1].path] = 2
          /\ matrixQueries[q].value[SampleFiles[1].path][SampleFiles[2].path] = 0

----------------------------------------------------------------------------
\* Properties of the list detect_circular_dependencies returns.

\* C25: every returned cycle has at least two elements, ends where it
\* starts, follows nonzero entries of the matrix from each element to the
\* next, and repeats no element but the first as the last; no two returned
\* cycles are the same sequence.
C25_CyclesAreClosedWalks ==
    cyclePc = "done" =>
        /\ \A i \in 1..Len(cycles) :
              LET c == cycles[i]
              IN /\ Len(c) >= 2
                 /\ c[1] = c[Len(c)]
                 /\ \A k \in 1..(Len(c) - 1) :
                       c[k] \in Files(matrix) /\ matrix[c[k]][c[k + 1]] > 0
                 /\ \A k, l \in 1..(Len(c) - 1) : k # l => c[k] # c[l]
        /\ \A i, j \in 1..Len(cycles) : i # j => cycles[i] # cycles[j]

\* C25 witness: the first file leads to the second, the second and the third
\* import each other; the cycle found two calls deep starts at the second
\* file, not at the root, and a self-loop of the third file is a cycle of
\* two elements.
C25_Witness ==
    /\ cyclePc = "done"
    /\ Len(matrix) = 3
    /\ matrix[1][2] > 0 /\ matrix[2][3] > 0 /\ matrix[3][2] > 0 /\ matrix[3][3] > 0
    /\ matrix[2][1] = 0 /\ matrix[3][1] = 0
    /\ cycles = << <<2, 3, 2>>, <<3, 3>> >>

\* The graph of nonzero entries has a directed cycle.
HasCycle(m) == SimpleCycles(m) # {}

\* C26: the call ends by returning, after running the dfs body once per
\* file, and the list it returns is non-empty exactly if the graph of nonzero
\* entries has a cycle; the matrices range over every enumeration order.
C26_TerminatesAndDecides ==
    cyclePc # "start" =>
        /\ cyclePc = "done"
        /\ dfsCalls = Len(matrix)
        /\ cycles # <<>> <=> HasCycle(matrix)

\* What holds of the calls that return.
C26_DecidesWhenItReturns ==
    cyclePc = "done" =>
        /\ dfsCalls = Len(matrix)
        /\ cycles # <<>> <=> HasCycle(matrix)

\* A call that returned on a chain of three files closed into a cycle.
C26_ReturnedOnCycle ==
    /\ cyclePc = "done"
    /\ Len(matrix) = 3
    /\ matrix[1][2] > 0 /\ matrix[2][3] > 0 /\ matrix[3][1] > 0
    /\ cycles # <<>>

\* Cycles c and d are the same cycle: the closed walk d goes through the
\* files of c in the same cyclic order, from any of them.
SameCycle(c, d) == IsRotationOf(d, Front(c))

\* Every square 0/1 matrix over at most MaxFiles files.
Matrices == UNION {[1..n -> [1..n -> Counts]] : n \in 0..MaxFiles}

\* C27, as stated: some matrix (the enumeration order is the numbering of
\* its files) has the same cycle reported twice, in two rotations.  Looked
\* for among all matrices once a call has returned.
C27_SomeCycleReportedTwice ==
    cyclePc = "done" =>
        \E m \in Matrices :
            LET found == DetectCycles(m, Len(m)).cycles
            IN \E i, j \in 1..Len(found) : i # j /\ SameCycle(found[i], found[j])

\* C27: for every matrix and enumeration order, no two returned cycles are
\* the same cycle in two rotations: visited is shared by all roots, so a
\* cycle is closed only on the first of its files entered.
C27_NoCycleReportedTwice ==
    cyclePc = "done" =>
        \A i, j \in 1..Len(cycles) : i # j => ~SameCycle(cycles[i], cycles[j])

\* C27 witness: the second and third files import each other and the first
\* imports neither, so the cycle can be met from two roots; it is reported
\* once, from the second file.
C27_Witness ==
    /\ cyclePc = "done"
    /\ Len(matrix) = 3
    /\ matrix[2][3] > 0 /\ matrix[3][2] > 0
    /\ \A b \in Files(matrix) : matrix[1][b] = 0
    /\ matrix[2][1] = 0 /\ matrix[2][2] = 0 /\ matrix[3][1] = 0 /\ matrix[3][3] = 0
    /\ cycles = << <<2, 3, 2>> >>

\* The rows call d created that are equal to row r.
CopiesIn(d, r) ==
    {k \in detections[d].first..detections[d].last : rels[k] = r}

\* C28: no call removes or merges a stored relationship: the rows of the
\* calls lie one after the other in the table, and two calls for the same
\* repository, with files and entities unchanged, created the same rows, so
\* that k calls leave k copies of each.
C28_RepeatedCallsDuplicate ==
    /\ \A d \in 1..Len(detections) :
          /\ detections[d].last <= Len(rels)
          /\ detections[d].first = IF d = 1 THEN 1 ELSE detections[d - 1].last + 1
    /\ detections # <<>> => detections[Len(detections)].last = Len(rels)
    /\ \A d1, d2 \in 1..Len(detections) :
          detections[d1].repo_id = detections[d2].repo_id =>
              \A k \in detections[d1].first..detections[d1].last :
                  Cardinality(CopiesIn(d2, rels[k]))
                      = Cardinality(CopiesIn(d1, rels[k]))

\* C28 witness: two calls for repository 1, each creating a calls row and an
\* imports row; the table holds each of them twice.
C28_Witness ==
    /\ Len(detections) = 2
    /\ detections[1].repo_id = 1 /\ detections[2].repo_id = 1
    /\ \E k \in detections[1].first..detections[1].last :
          rels[k].relationship_type = "calls"
    /\ \E k \in detections[1].first..detections[1].last :
          rels[k].relationship_type = "imports"
    /\ \A k \in 1..Len(rels) :
          Cardinality({j \in 1..Len(rels) : rels[j] = rels[k]}) = 2

\* Between the moments the table held n1 and n2 rows, a row was stored whose
\* source entity belongs to repository repo_id.
ChangedFor(repo_id, n1, n2) ==
    \E k \in (n1 + 1)..n2 : entities[rels[k].source_entity_id].repo_id = repo_id

\* Two dependency matrices of one repository are equal unless a relationship
\* of that repository was stored in between.
MatrixIsolated ==
    \A q1, q2 \in 1..Len(matrixQueries) :
        (/\ q1 < q2
         /\ matrixQueries[q1].repo_id = matrixQueries[q2].repo_id
         /\ ~ChangedFor(matrixQueries[q1].repo_id,
                        matrixQueries[q1].stored, matrixQueries[q2].stored))
            => matrixQueries[q1].value = matrixQueries[q2].value

\* The same for two call graphs of one repository.
CallGraphIsolated ==
    \A q1, q2 \in 1..Len(graphQueries) :
        (/\ q1 < q2
         /\ graphQueries[q1].repo_id = graphQueries[q2].repo_id
         /\ ~ChangedFor(graphQueries[q1].repo_id,
                        graphQueries[q1].stored, graphQueries[q2].stored))
            => graphQueries[q1].value = graphQueries[q2].value

\* C29: the call graph and the dependency matrix returned for a repository
\* change only when a relationship whose source entity belongs to that
\* repository is stored; relationships of another repository, also ones
\* naming file paths that exist in both, leave them as they were.
C29_ResultsDependOnOwnRepository ==
    MatrixIsolated /\ CallGraphIsolated

\* C30: the number a call returns is the number of rows it stored, of all
\* four types together.
C30_ReturnedCountsAllRows ==
    \A d \in 1..Len(detections) :
        detections[d].returned = detections[d].last - detections[d].first + 1

\* What the returned number does count: the calls, contains and inherits
\* rows of the call.
C30_ReturnedCountsEntityRows ==
    \A d \in 1..Len(detections) :
        detections[d].returned
            = Cardinality({k \in detections[d].first..detections[d].last :
                              rels[k].relationship_type # "imports"})

====
